---- MODULE Spec2Model ----
(***************************************************************************)
(* A model of src/src/syntax.js: the tokenizer (tokenize), the parser      *)
(* (parse) and the simplify transform of a Lisp-like notation.             *)
(*                                                                         *)
(* A text is a sequence of one-character strings.  Indices into the text   *)
(* are zero-based as in the source; CharAt converts.                       *)
(***************************************************************************)
EXTENDS Integers, Sequences, FiniteSets, TLC

(***************************************************************************)
(* Bounds of the model: the inputs are all texts over five alphabets, and  *)
(* the texts in which an opening delimiter, quote or "#|" is followed by   *)
(* up to MaxSpanLines newlines, and the texts in which a string or a       *)
(* comment holds up to MaxInertLen delimiters.                             *)
(***************************************************************************)
MaxLen == 3
MaxBracketLen == 4
MaxListLen == 5
MaxCommentLen == 8
MaxStringLen == 5
MaxSpanLines == 6
MaxCallLen == 2
MaxInertLen == 2

Alphabet == {"(", ")", "]", " ", "\n", ";", "#", "|", "\"", "'", "\\", "a"}
BracketAlphabet == {"(", ")", "[", "]", "{", "}"}
ListAlphabet == {"(", ")", "\n", ";", "a"}
CommentAlphabet == {"#", "|", "a"}
StringAlphabet == {"\"", "'", "\\", "a"}

CallAlphabet == {"(", ")", " "}

TextsOver(alphabet, n) == UNION {[1..k -> alphabet] : k \in 0..n}

\* Inputs of the repository's tests that are longer than the bounds.
NestingTestText ==
  <<"(", "(", ")", "(", "(", ")", "(", "(", "(", "(", "(", "(", ")", ")",
    ")", ")", ")", "(", ")", ")", "(", ")", ")", "(", "(", "(", ")", ")",
    "(", "(", ")", ")", "(", ")", ")", "(", "(", ")", ")", "(", ")", "(",
    ")", "(", ")", "(", ")", ")">>

CommentTestText ==
  <<"#", "|", "a", "#", "|", "b", "|", "#", "c", "|", "#">>

SimplifyTestText ==
  <<";", " ", "H", "e", "l", "l", "o", "\n", "(", "s", "a", "y", " ", "(",
    "n", "a", "m", "e", " ", "[", "x", " ", "1", " ", "\"", "y", "\"", "]",
    ")", ")">>

TestTexts == {NestingTestText, CommentTestText, SimplifyTestText}

\* Texts with a construct that spans several lines: something before it, its
\* opening, n newlines, its closing (or none, or a wrong one) and something
\* after it.
Newlines(n) == [k \in 1..n |-> "\n"]

SpanTexts ==
  { before \o opening \o Newlines(n) \o closing \o after :
      before \in {<<>>, <<"\n">>, <<"a">>},
      opening \in {<<"\"">>, <<"'">>, <<"#", "|">>, <<"(">>},
      n \in 0..MaxSpanLines,
      closing \in {<<>>, <<"\"">>, <<"'">>, <<"|", "#">>, <<"]">>, <<")">>},
      after \in {<<>>, <<"a">>} }

\* Texts with a string or a comment that holds what would be a delimiter
\* outside it, alone or inside a list.
InertPieces ==
  {<<"(">>, <<")">>, <<"]">>, <<";">>, <<"\"">>, <<"'">>, <<"#", "|">>,
   <<"|", "#">>}

RECURSIVE InertContents(_)
InertContents(n) ==
  IF n = 0 THEN {<<>>}
  ELSE InertContents(n - 1)
         \cup {content \o piece : content \in InertContents(n - 1),
                                  piece \in InertPieces}

InertTexts ==
  { around[1] \o enclosure[1] \o content \o enclosure[2] \o around[2] :
      around \in {<< <<>>, <<>> >>, << <<"(">>, <<")">> >>},
      enclosure \in {<< <<"\"">>, <<"\"">> >>, << <<"'">>, <<"'">> >>,
                     << <<"#", "|">>, <<"|", "#">> >>,
                     << <<";">>, <<"\n">> >>, << <<";">>, <<>> >>},
      content \in InertContents(MaxInertLen) }

\* Texts with a "#" right before a double-quoted string.
RawStringTexts ==
  { word \o <<"#">> \o string :
      word \in {<<>>, <<"a">>},
      string \in {<<"\"", "a", "\"">>, <<"\"", "\\", "\"", "\"">>} }

Texts ==
  TextsOver(Alphabet, MaxLen) \cup TextsOver(BracketAlphabet, MaxBracketLen)
    \cup TextsOver(ListAlphabet, MaxListLen)
    \cup TextsOver(CommentAlphabet, MaxCommentLen)
    \cup TextsOver(StringAlphabet, MaxStringLen)
    \cup SpanTexts
    \cup InertTexts
    \cup RawStringTexts
    \cup TestTexts

(***************************************************************************)
(* Token types, modes and error codes.                                     *)
(***************************************************************************)
TOKEN_TYPE_WHITESPACE == 100
TOKEN_TYPE_WORD == 101
TOKEN_TYPE_DOUBLE_QUOTE_STRING == 102
TOKEN_TYPE_SINGLE_QUOTE_STRING == 103
TOKEN_TYPE_LIST_DELIMITER_OPEN == 104
TOKEN_TYPE_LIST_DELIMITER_CLOSE == 105
TOKEN_TYPE_SINGLE_LINE_COMMENT == 106
TOKEN_TYPE_MULTI_LINE_COMMENT == 107

PARSE_NODE_TYPE_LIST == 200

MODE_UNDETERMINED == 1
MODE_WHITESPACE == 2
MODE_WORD == 4
MODE_DOUBLE_QUOTE_STRING == 8
MODE_SINGLE_QUOTE_STRING == 16
MODE_SINGLE_LINE_COMMENT == 32
MODE_MULTI_LINE_COMMENT == 64
MODE_MULTI_LINE_COMMENT_START == 128
MODE_MULTI_LINE_COMMENT_END == 256

ERROR_CODE_UNEXPECTED_CLOSING_DELIMITER == 1
ERROR_CODE_UNCLOSED_DELIMITER == 2
ERROR_CODE_DELIM_MISMATCH == 4
ERROR_CODE_UNTERMINATED_STRING == 8
ERROR_CODE_UNTERMINATED_MULTI_LINE_COMMENT == 16

character_consumption_loop_limit == 2

\* GET_CLOSE_VARIANT with the closers of "{" and "[" exchanged.
GET_CLOSE_VARIANT_swapped(open) ==
  CASE open = <<"(">> -> <<")">>
    [] open = <<"{">> -> <<"]">>
    [] open = <<"[">> -> <<"}">>
    [] OTHER -> <<"undefined">>

\* GET_CLOSE_VARIANT[lexeme], a lexeme being a sequence of characters;
\* <<"undefined">> for a key that is not in the map.
GET_CLOSE_VARIANT(open) ==
  CASE open = <<"(">> -> <<")">>
    [] open = <<"{">> -> <<"}">>
    [] open = <<"[">> -> <<"]">>
    [] OTHER -> <<"undefined">>

(***************************************************************************)
(* Character classes: the regular expressions of tokenize.                 *)
(***************************************************************************)
\* The class of opening delimiters without "{".
IsOpenDelimiter_noBrace(c) == c \in {"(", "["}

IsOpenDelimiter(c) == c \in {"(", "[", "{"}
IsCloseDelimiter(c) == c \in {")", "]", "}"}
IsListDelimiter(c) == c \in {"(", ")", "[", "]", "{", "}"}
IsWhitespace(c) == c \in {" ", "\n", "\t", "\r"}

(***************************************************************************)
(* Token and ParseNodeList: both have the fields type, index, length,      *)
(* line, column, value.  The value of a token is its lexeme, the value of  *)
(* a list is the sequence of its children.  NullToken stands for null.     *)
(***************************************************************************)
Token(type, index, length, line, column) ==
  [type |-> type, index |-> index, length |-> length, line |-> line,
   column |-> column, value |-> <<>>]

\* ParseNodeList that stores the line as column and the column as line.
ParseNodeList_swapped(type, index, length, line, column) ==
  [type |-> type, index |-> index, length |-> length, line |-> column,
   column |-> line, value |-> <<>>]

ParseNodeList(type, index, length, line, column) ==
  [type |-> type, index |-> index, length |-> length, line |-> line,
   column |-> column, value |-> <<>>]

NullToken == [type |-> 0, index |-> 0, length |-> 0, line |-> 0,
              column |-> 0, value |-> <<>>]

\* text[i] of the source: "undefined" outside the text.
CharAt(t, i) == IF i >= 0 /\ i < Len(t) THEN t[i + 1] ELSE "undefined"

\* text.substring(from, to) for 0 <= from <= to.
Substring(t, from, to) ==
  SubSeq(t, from + 1, IF to > Len(t) THEN Len(t) ELSE to)

\* token.value = text.substring(token.index, token.index + token.length)
WithValue(t, tok) ==
  [tok EXCEPT !.value = Substring(t, tok.index, tok.index + tok.length)]

(***************************************************************************)
(* Results.  kind is "none" while the call runs, "ok" / "err" for the two  *)
(* structured results and "throw" for an exception (a failed assertion,    *)
(* error_unexpected, error_unexpected_unimplemented).  nesting is          *)
(* data.nesting_level, which only the parser's errors carry, and missing   *)
(* the number of closing delimiters the message of an unterminated         *)
(* multi-line comment names; each is -1 when the result has none.          *)
(* line and column are the position of the "^" marker of the diagnostic,   *)
(* start_line and start_column that of its "v" marker; -1 when it has none.*)
(* rows are the rows of the message that show the text, in order: the      *)
(* index of the line a row shows, or Elision for the row "... | ...".      *)
(***************************************************************************)
Elision == -1

NoResult ==
  [kind |-> "none", error_code |-> 0, nesting |-> -1, missing |-> -1,
   what |-> "",
   start_line |-> -1, start_column |-> -1, line |-> -1, column |-> -1,
   rows |-> <<>>]
OkResult == [NoResult EXCEPT !.kind = "ok"]
ErrResult(code, nesting, what) ==
  [NoResult EXCEPT !.kind = "err", !.error_code = code,
                   !.nesting = nesting, !.what = what]
ThrowResult(what) == [NoResult EXCEPT !.kind = "throw", !.what = what]

\* `missing ${multi_line_comment_nesting_level} closing delimiter`
Missing(result, level) == [result EXCEPT !.missing = level]

\* The "^" marker of a diagnostic and the one line it shows:
\* create_error_message(text, _, line, column, ...)
At(result, line, column) ==
  [result EXCEPT !.line = line, !.column = column, !.rows = <<line>>]

\* The three branches "1 line", "2 - 5 lines" and "+5 lines" of a diagnostic
\* that shows a span of the text: the lines pushed to error_message.
RenderedRows(start_line, end_line) ==
  IF start_line = end_line THEN <<end_line>>
  ELSE IF end_line - start_line <= 5
  THEN <<start_line>>
         \o [k \in 1..(end_line - start_line - 1) |-> start_line + k]
         \o <<end_line>>
  ELSE <<start_line, start_line + 1, Elision, end_line - 1, end_line>>

\* The "v" and "^" markers of a diagnostic that shows a span of the text.
Span(result, start_line, start_column, end_line, end_column) ==
  [result EXCEPT !.start_line = start_line, !.start_column = start_column,
                 !.line = end_line, !.column = end_column,
                 !.rows = RenderedRows(start_line, end_line)]

(***************************************************************************)
(* tokenize: the state of the scanner.                                     *)
(***************************************************************************)
VARIABLES
  text,                              \* the input of the call
  pc,                                \* position of the program
  text_index, line_index, column_index,
  tokens,                            \* emitted tokens
  token,                             \* the pending token, or NullToken
  mode,
  multi_line_comment_nesting_level,
  character_consumption_loop_count,  \* iterations of the decision loop for the last character
  tokenization_result,
  include_comments, include_whitespace, include_list_delimiters,
  i,                                 \* parse: index of the next token
  list_delim_stack, parse_node_list_stack,
  parse_result,
  parse_trees,
  simplify_include_comments, simplify_include_whitespace,
  simplified_parse_trees,            \* the result of to_simplified_parse_trees
  calls                              \* the locals of each of two calls of parse

scanner_vars ==
  <<text_index, line_index, column_index, tokens, token, mode,
    multi_line_comment_nesting_level, character_consumption_loop_count,
    tokenization_result>>

parser_vars ==
  <<include_comments, include_whitespace, include_list_delimiters, i,
    list_delim_stack, parse_node_list_stack, parse_result, parse_trees>>

simplify_vars ==
  <<simplify_include_comments, simplify_include_whitespace,
    simplified_parse_trees>>

vars == <<text, pc, scanner_vars, parser_vars, simplify_vars, calls>>

(***************************************************************************)
(* The decision loop of tokenize works on a record of the locals it        *)
(* changes: mode, token, tokens, level (multi_line_comment_nesting_level), *)
(* consumed (character_consumed), count and result (a return or a throw),  *)
(* with line (line_index) and col (column_index), which it reads.          *)
(***************************************************************************)
\* Emit that drops the pending token instead of pushing it.
Emit_forget(t, s) ==
  [s EXCEPT !.token = NullToken,
            !.mode = MODE_UNDETERMINED]

\* Emit that leaves the mode as it is.
Emit_keepMode(t, s) ==
  [s EXCEPT !.tokens = Append(@, WithValue(t, s.token)),
            !.token = NullToken]

Emit(t, s) ==
  [s EXCEPT !.tokens = Append(@, WithValue(t, s.token)),
            !.token = NullToken,
            !.mode = MODE_UNDETERMINED]

\* Grow without the increment of token.length.
Grow_forgetLength(s) == s

Grow(s) == [s EXCEPT !.token.length = @ + 1]

Consumed(s) == [s EXCEPT !.consumed = TRUE]

Throw(s, what) == [s EXCEPT !.result = ThrowResult(what)]

\* EndsWord without the "|#" alternative.
EndsWord_noClose(t, ti) ==
  LET character == CharAt(t, ti) IN
    \/ IsWhitespace(character)
    \/ character = ";"
    \/ character = "#" /\ CharAt(t, ti + 1) = "|"
    \/ character = "\""
    \/ character = "'"
    \/ IsListDelimiter(character)

\* EndsWord without the "'" alternative.
EndsWord_noSingleQuote(t, ti) ==
  LET character == CharAt(t, ti) IN
    \/ IsWhitespace(character)
    \/ character = ";"
    \/ character = "#" /\ CharAt(t, ti + 1) = "|"
    \/ character = "\""
    \/ IsListDelimiter(character)
    \/ character = "|" /\ CharAt(t, ti + 1) = "#"

\* The condition that ends a Word token (the NOTE in MODE_WORD).
\* EndsWord in which a double quote right after "#" does not end the word.
EndsWord_rawString(t, ti) ==
  LET character == CharAt(t, ti) IN
    \/ IsWhitespace(character)
    \/ character = ";"
    \/ character = "#" /\ CharAt(t, ti + 1) = "|"
    \/ character = "\"" /\ CharAt(t, ti - 1) # "#"
    \/ character = "'"
    \/ IsListDelimiter(character)
    \/ character = "|" /\ CharAt(t, ti + 1) = "#"

EndsWord(t, ti) ==
  LET character == CharAt(t, ti) IN
    \/ IsWhitespace(character)
    \/ character = ";"
    \/ character = "#" /\ CharAt(t, ti + 1) = "|"
    \/ character = "\""
    \/ character = "'"
    \/ IsListDelimiter(character)
    \/ character = "|" /\ CharAt(t, ti + 1) = "#"

\* mode === MODE_UNDETERMINED
DecideUndetermined(t, s, ti, line, col) ==
  LET character == CharAt(t, ti) IN
  IF s.token # NullToken THEN Throw(s, "token expected to be null")
  ELSE IF s.level # 0 THEN Throw(s, "nesting expected to be 0")
  ELSE IF IsOpenDelimiter(character) THEN
    Consumed(Emit(t, [s EXCEPT !.token =
      Token(TOKEN_TYPE_LIST_DELIMITER_OPEN, ti, 1, line, col)]))
  ELSE IF IsCloseDelimiter(character) THEN
    Consumed(Emit(t, [s EXCEPT !.token =
      Token(TOKEN_TYPE_LIST_DELIMITER_CLOSE, ti, 1, line, col)]))
  ELSE IF IsWhitespace(character) THEN
    Consumed([s EXCEPT !.token = Token(TOKEN_TYPE_WHITESPACE, ti, 1, line, col),
                       !.mode = MODE_WHITESPACE])
  ELSE IF character = ";" THEN
    Consumed([s EXCEPT !.token = Token(TOKEN_TYPE_SINGLE_LINE_COMMENT, ti, 1, line, col),
                       !.mode = MODE_SINGLE_LINE_COMMENT])
  ELSE IF character = "#" /\ CharAt(t, ti + 1) = "|" THEN
    Consumed([s EXCEPT !.token = Token(TOKEN_TYPE_MULTI_LINE_COMMENT, ti, 1, line, col),
                       !.mode = MODE_MULTI_LINE_COMMENT_START,
                       !.level = 1])
  ELSE IF character = "|" /\ CharAt(t, ti + 1) = "#" THEN
    [s EXCEPT !.result = At(ErrResult(ERROR_CODE_UNEXPECTED_CLOSING_DELIMITER, -1,
                              "unexpected multi-line comment closing delimiter"),
                            line, col + 1)]
  ELSE IF character = "\"" THEN
    Consumed([s EXCEPT !.token = Token(TOKEN_TYPE_DOUBLE_QUOTE_STRING, ti, 1, line, col),
                       !.mode = MODE_DOUBLE_QUOTE_STRING])
  ELSE IF character = "'" THEN
    Consumed([s EXCEPT !.token = Token(TOKEN_TYPE_SINGLE_QUOTE_STRING, ti, 1, line, col),
                       !.mode = MODE_SINGLE_QUOTE_STRING])
  ELSE
    Consumed([s EXCEPT !.token = Token(TOKEN_TYPE_WORD, ti, 1, line, col),
                       !.mode = MODE_WORD])

\* The multi-line comment modes without the increment for a nested "#|".
DecideMultiLineComment_flat(t, s, ti) ==
  LET character == CharAt(t, ti) IN
  IF s.level <= 0 THEN Throw(s, "nesting level expected to be greater than 0")
  ELSE IF s.mode = MODE_MULTI_LINE_COMMENT_START THEN
    IF character # "|" THEN Throw(s, "Expected |")
    ELSE [Consumed(Grow(s)) EXCEPT !.mode = MODE_MULTI_LINE_COMMENT]
  ELSE IF s.mode = MODE_MULTI_LINE_COMMENT THEN
    IF character = "#" /\ CharAt(t, ti + 1) = "|" THEN
      [Consumed(Grow(s)) EXCEPT !.mode = MODE_MULTI_LINE_COMMENT_START]
    ELSE IF character = "|" /\ CharAt(t, ti + 1) = "#" THEN
      [Consumed(Grow(s)) EXCEPT !.mode = MODE_MULTI_LINE_COMMENT_END]
    ELSE Consumed(Grow(s))
  ELSE
    IF character # "#" THEN Throw(s, "Expected #")
    ELSE IF s.level - 1 = 0 THEN
      Emit(t, [Consumed(Grow(s)) EXCEPT !.level = @ - 1])
    ELSE
      [Consumed(Grow(s)) EXCEPT !.level = @ - 1,
                                !.mode = MODE_MULTI_LINE_COMMENT]

\* mode === MODE_MULTI_LINE_COMMENT_START, MODE_MULTI_LINE_COMMENT, MODE_MULTI_LINE_COMMENT_END
\* DecideMultiLineComment that enters the start sub-state on "#" without a
\* look at the next character.
DecideMultiLineComment_noLookahead(t, s, ti) ==
  LET character == CharAt(t, ti) IN
  IF s.level <= 0 THEN Throw(s, "nesting level expected to be greater than 0")
  ELSE IF s.mode = MODE_MULTI_LINE_COMMENT_START THEN
    IF character # "|" THEN Throw(s, "Expected |")
    ELSE [Consumed(Grow(s)) EXCEPT !.mode = MODE_MULTI_LINE_COMMENT]
  ELSE IF s.mode = MODE_MULTI_LINE_COMMENT THEN
    IF character = "#" THEN
      [Consumed(Grow(s)) EXCEPT !.mode = MODE_MULTI_LINE_COMMENT_START,
                                !.level = @ + 1]
    ELSE IF character = "|" /\ CharAt(t, ti + 1) = "#" THEN
      [Consumed(Grow(s)) EXCEPT !.mode = MODE_MULTI_LINE_COMMENT_END]
    ELSE Consumed(Grow(s))
  ELSE
    IF character # "#" THEN Throw(s, "Expected #")
    ELSE IF s.level - 1 = 0 THEN
      Emit(t, [Consumed(Grow(s)) EXCEPT !.level = @ - 1])
    ELSE
      [Consumed(Grow(s)) EXCEPT !.level = @ - 1,
                                !.mode = MODE_MULTI_LINE_COMMENT]

DecideMultiLineComment(t, s, ti) ==
  LET character == CharAt(t, ti) IN
  IF s.level <= 0 THEN Throw(s, "nesting level expected to be greater than 0")
  ELSE IF s.mode = MODE_MULTI_LINE_COMMENT_START THEN
    IF character # "|" THEN Throw(s, "Expected |")
    ELSE [Consumed(Grow(s)) EXCEPT !.mode = MODE_MULTI_LINE_COMMENT]
  ELSE IF s.mode = MODE_MULTI_LINE_COMMENT THEN
    IF character = "#" /\ CharAt(t, ti + 1) = "|" THEN
      [Consumed(Grow(s)) EXCEPT !.mode = MODE_MULTI_LINE_COMMENT_START,
                                !.level = @ + 1]
    ELSE IF character = "|" /\ CharAt(t, ti + 1) = "#" THEN
      [Consumed(Grow(s)) EXCEPT !.mode = MODE_MULTI_LINE_COMMENT_END]
    ELSE Consumed(Grow(s))
  ELSE
    IF character # "#" THEN Throw(s, "Expected #")
    ELSE IF s.level - 1 = 0 THEN
      Emit(t, [Consumed(Grow(s)) EXCEPT !.level = @ - 1])
    ELSE
      [Consumed(Grow(s)) EXCEPT !.level = @ - 1,
                                !.mode = MODE_MULTI_LINE_COMMENT]

\* Decide with strings that end at any quote, escaped or not.
Decide_noLookBack(t, s, ti, line, col) ==
  LET character == CharAt(t, ti) IN
  IF s.mode = MODE_UNDETERMINED THEN DecideUndetermined(t, s, ti, line, col)
  ELSE IF s.token = NullToken THEN Throw(s, "token expected not to be null")
  ELSE IF s.mode = MODE_WHITESPACE THEN
    IF IsWhitespace(character) THEN Consumed(Grow(s)) ELSE Emit(t, s)
  ELSE IF s.mode = MODE_WORD THEN
    IF EndsWord(t, ti) THEN Emit(t, s) ELSE Consumed(Grow(s))
  ELSE IF s.mode = MODE_DOUBLE_QUOTE_STRING THEN
    IF character = "\""
    THEN Consumed(Emit(t, Grow(s))) ELSE Consumed(Grow(s))
  ELSE IF s.mode = MODE_SINGLE_QUOTE_STRING THEN
    IF character = "'"
    THEN Consumed(Emit(t, Grow(s))) ELSE Consumed(Grow(s))
  ELSE IF s.mode = MODE_SINGLE_LINE_COMMENT THEN
    IF character = "\n" THEN Consumed(Emit(t, Grow(s))) ELSE Consumed(Grow(s))
  ELSE IF s.mode \in {MODE_MULTI_LINE_COMMENT_START, MODE_MULTI_LINE_COMMENT,
                      MODE_MULTI_LINE_COMMENT_END}
  THEN DecideMultiLineComment(t, s, ti)
  ELSE Throw(s, "not implemented: mode")

\* Decide whose single-line comment ends before the "\n", not after it.
Decide_commentExcludesNewline(t, s, ti, line, col) ==
  LET character == CharAt(t, ti) IN
  IF s.mode = MODE_UNDETERMINED THEN DecideUndetermined(t, s, ti, line, col)
  ELSE IF s.token = NullToken THEN Throw(s, "token expected not to be null")
  ELSE IF s.mode = MODE_WHITESPACE THEN
    IF IsWhitespace(character) THEN Consumed(Grow(s)) ELSE Emit(t, s)
  ELSE IF s.mode = MODE_WORD THEN
    IF EndsWord(t, ti) THEN Emit(t, s) ELSE Consumed(Grow(s))
  ELSE IF s.mode = MODE_DOUBLE_QUOTE_STRING THEN
    IF character = "\"" /\ CharAt(t, ti - 1) # "\\"
    THEN Consumed(Emit(t, Grow(s))) ELSE Consumed(Grow(s))
  ELSE IF s.mode = MODE_SINGLE_QUOTE_STRING THEN
    IF character = "'" /\ CharAt(t, ti - 1) # "\\"
    THEN Consumed(Emit(t, Grow(s))) ELSE Consumed(Grow(s))
  ELSE IF s.mode = MODE_SINGLE_LINE_COMMENT THEN
    IF character = "\n" THEN Emit(t, s) ELSE Consumed(Grow(s))
  ELSE IF s.mode \in {MODE_MULTI_LINE_COMMENT_START, MODE_MULTI_LINE_COMMENT,
                      MODE_MULTI_LINE_COMMENT_END}
  THEN DecideMultiLineComment(t, s, ti)
  ELSE Throw(s, "not implemented: mode")

\* Decide whose Whitespace mode leaves everything as it is at a character
\* that is not whitespace.
Decide_whitespaceStuck(t, s, ti, line, col) ==
  LET character == CharAt(t, ti) IN
  IF s.mode = MODE_UNDETERMINED THEN DecideUndetermined(t, s, ti, line, col)
  ELSE IF s.token = NullToken THEN Throw(s, "token expected not to be null")
  ELSE IF s.mode = MODE_WHITESPACE THEN
    IF IsWhitespace(character) THEN Consumed(Grow(s)) ELSE s
  ELSE IF s.mode = MODE_WORD THEN
    IF EndsWord(t, ti) THEN Emit(t, s) ELSE Consumed(Grow(s))
  ELSE IF s.mode = MODE_DOUBLE_QUOTE_STRING THEN
    IF character = "\"" /\ CharAt(t, ti - 1) # "\\"
    THEN Consumed(Emit(t, Grow(s))) ELSE Consumed(Grow(s))
  ELSE IF s.mode = MODE_SINGLE_QUOTE_STRING THEN
    IF character = "'" /\ CharAt(t, ti - 1) # "\\"
    THEN Consumed(Emit(t, Grow(s))) ELSE Consumed(Grow(s))
  ELSE IF s.mode = MODE_SINGLE_LINE_COMMENT THEN
    IF character = "\n" THEN Consumed(Emit(t, Grow(s))) ELSE Consumed(Grow(s))
  ELSE IF s.mode \in {MODE_MULTI_LINE_COMMENT_START, MODE_MULTI_LINE_COMMENT,
                      MODE_MULTI_LINE_COMMENT_END}
  THEN DecideMultiLineComment(t, s, ti)
  ELSE Throw(s, "not implemented: mode")

\* One iteration of the body of `while (!character_consumed)`.
Decide_anyQuoteCloses(t, s, ti, line, col) ==
  LET character == CharAt(t, ti) IN
  IF s.mode = MODE_UNDETERMINED THEN DecideUndetermined(t, s, ti, line, col)
  ELSE IF s.token = NullToken THEN Throw(s, "token expected not to be null")
  ELSE IF s.mode = MODE_WHITESPACE THEN
    IF IsWhitespace(character) THEN Consumed(Grow(s)) ELSE Emit(t, s)
  ELSE IF s.mode = MODE_WORD THEN
    IF EndsWord(t, ti) THEN Emit(t, s) ELSE Consumed(Grow(s))
  ELSE IF s.mode \in {MODE_DOUBLE_QUOTE_STRING, MODE_SINGLE_QUOTE_STRING} THEN
    IF character \in {"\"", "'"} /\ CharAt(t, ti - 1) # "\\"
    THEN Consumed(Emit(t, Grow(s))) ELSE Consumed(Grow(s))
  ELSE IF s.mode = MODE_SINGLE_LINE_COMMENT THEN
    IF character = "\n" THEN Consumed(Emit(t, Grow(s))) ELSE Consumed(Grow(s))
  ELSE IF s.mode \in {MODE_MULTI_LINE_COMMENT_START, MODE_MULTI_LINE_COMMENT,
                      MODE_MULTI_LINE_COMMENT_END}
  THEN DecideMultiLineComment(t, s, ti)
  ELSE Throw(s, "not implemented: mode")

Decide(t, s, ti, line, col) ==
  LET character == CharAt(t, ti) IN
  IF s.mode = MODE_UNDETERMINED THEN DecideUndetermined(t, s, ti, line, col)
  ELSE IF s.token = NullToken THEN Throw(s, "token expected not to be null")
  ELSE IF s.mode = MODE_WHITESPACE THEN
    IF IsWhitespace(character) THEN Consumed(Grow(s)) ELSE Emit(t, s)
  ELSE IF s.mode = MODE_WORD THEN
    IF EndsWord(t, ti) THEN Emit(t, s) ELSE Consumed(Grow(s))
  ELSE IF s.mode = MODE_DOUBLE_QUOTE_STRING THEN
    IF character = "\"" /\ CharAt(t, ti - 1) # "\\"
    THEN Consumed(Emit(t, Grow(s))) ELSE Consumed(Grow(s))
  ELSE IF s.mode = MODE_SINGLE_QUOTE_STRING THEN
    IF character = "'" /\ CharAt(t, ti - 1) # "\\"
    THEN Consumed(Emit(t, Grow(s))) ELSE Consumed(Grow(s))
  ELSE IF s.mode = MODE_SINGLE_LINE_COMMENT THEN
    IF character = "\n" THEN Consumed(Emit(t, Grow(s))) ELSE Consumed(Grow(s))
  ELSE IF s.mode \in {MODE_MULTI_LINE_COMMENT_START, MODE_MULTI_LINE_COMMENT,
                      MODE_MULTI_LINE_COMMENT_END}
  THEN DecideMultiLineComment(t, s, ti)
  ELSE Throw(s, "not implemented: mode")

\* while (!character_consumed) { assert(count <= limit); ...; count += 1 }
RECURSIVE ConsumeCharacter(_, _, _, _, _)
ConsumeCharacter(t, s, ti, line, col) ==
  IF s.consumed \/ s.result.kind # "none" THEN s
  ELSE IF s.count > character_consumption_loop_limit
  THEN Throw(s, "loop limit reached")
  ELSE LET d == Decide(t, s, ti, line, col) IN
       ConsumeCharacter(t,
         IF d.result.kind = "none" THEN [d EXCEPT !.count = @ + 1] ELSE d,
         ti, line, col)

(***************************************************************************)
(* End-of-input finalization of tokenize (after the loop over the text).   *)
(***************************************************************************)
\* FinalizeToken whose message always says one delimiter is missing.
FinalizeToken_one(t, s) ==
  IF s.token = NullToken THEN s
  ELSE IF s.mode = MODE_UNDETERMINED
  THEN Throw(s, "Mode should not be unknown if token is not null.")
  ELSE IF s.mode \in {MODE_WHITESPACE, MODE_SINGLE_LINE_COMMENT, MODE_WORD}
  THEN Emit(t, s)
  ELSE IF s.mode = MODE_DOUBLE_QUOTE_STRING
  THEN [s EXCEPT !.result = Span(ErrResult(ERROR_CODE_UNTERMINATED_STRING, -1,
                                           "unterminated double-quote string"),
                                 s.token.line, s.token.column, s.line, s.col)]
  ELSE IF s.mode = MODE_MULTI_LINE_COMMENT
  THEN [s EXCEPT !.result =
          Span(Missing(ErrResult(ERROR_CODE_UNTERMINATED_MULTI_LINE_COMMENT, -1,
                                 "unterminated multi-line comment"), 1),
               s.token.line, s.token.column, s.line, s.col)]
  ELSE Throw(s, "Leftover token: not implemented!")

\* FinalizeToken that reports an unterminated string as UnclosedDelimiter.
FinalizeToken_unclosed(t, s) ==
  IF s.token = NullToken THEN s
  ELSE IF s.mode = MODE_UNDETERMINED
  THEN Throw(s, "Mode should not be unknown if token is not null.")
  ELSE IF s.mode \in {MODE_WHITESPACE, MODE_SINGLE_LINE_COMMENT, MODE_WORD}
  THEN Emit(t, s)
  ELSE IF s.mode = MODE_DOUBLE_QUOTE_STRING
  THEN [s EXCEPT !.result = Span(ErrResult(ERROR_CODE_UNCLOSED_DELIMITER, -1,
                                           "unterminated double-quote string"),
                                 s.token.line, s.token.column, s.line, s.col)]
  ELSE IF s.mode = MODE_MULTI_LINE_COMMENT
  THEN [s EXCEPT !.result =
          Span(Missing(ErrResult(ERROR_CODE_UNTERMINATED_MULTI_LINE_COMMENT, -1,
                                 "unterminated multi-line comment"), s.level),
               s.token.line, s.token.column, s.line, s.col)]
  ELSE Throw(s, "Leftover token: not implemented!")

FinalizeToken(t, s) ==
  IF s.token = NullToken THEN s
  ELSE IF s.mode = MODE_UNDETERMINED
  THEN Throw(s, "Mode should not be unknown if token is not null.")
  ELSE IF s.mode \in {MODE_WHITESPACE, MODE_SINGLE_LINE_COMMENT, MODE_WORD}
  THEN Emit(t, s)
  ELSE IF s.mode = MODE_DOUBLE_QUOTE_STRING
  THEN [s EXCEPT !.result = Span(ErrResult(ERROR_CODE_UNTERMINATED_STRING, -1,
                                           "unterminated double-quote string"),
                                 s.token.line, s.token.column, s.line, s.col)]
  ELSE IF s.mode = MODE_MULTI_LINE_COMMENT
  THEN [s EXCEPT !.result =
          Span(Missing(ErrResult(ERROR_CODE_UNTERMINATED_MULTI_LINE_COMMENT, -1,
                                 "unterminated multi-line comment"), s.level),
               s.token.line, s.token.column, s.line, s.col)]
  ELSE Throw(s, "Leftover token: not implemented!")

FinalResult(t, s) ==
  LET f == FinalizeToken(t, s) IN
  IF f.result.kind # "none" THEN f
  ELSE IF f.level # 0 THEN Throw(f, "nesting level expected to be 0")
  ELSE IF f.mode # MODE_UNDETERMINED THEN Throw(f, "Expected mode to be MODE_UNDETERMINED")
  ELSE IF f.token # NullToken THEN Throw(f, "Expected token to be null.")
  ELSE [f EXCEPT !.result = OkResult]

\* "Update line index and column index" without the reset of the column.
AdvanceColumn_noReset(character, column) == column + 1

\* "Update line index and column index."
AdvanceColumn(character, column) ==
  IF character = "\n" THEN 0 ELSE column + 1

AdvanceLine(character, line) ==
  IF character = "\n" THEN line + 1 ELSE line

Locals ==
  [mode |-> mode, token |-> token, tokens |-> tokens,
   level |-> multi_line_comment_nesting_level,
   line |-> line_index, col |-> column_index,
   consumed |-> FALSE, count |-> 0, result |-> NoResult]

(***************************************************************************)
(* Actions of tokenize.                                                    *)
(***************************************************************************)
Init ==
  /\ text \in Texts
  /\ pc = "scan"
  /\ text_index = 0
  /\ line_index = 0
  /\ column_index = 0
  /\ tokens = <<>>
  /\ token = NullToken
  /\ mode = MODE_UNDETERMINED
  /\ multi_line_comment_nesting_level = 0
  /\ character_consumption_loop_count = 0
  /\ tokenization_result = NoResult
  /\ include_comments = TRUE
  /\ include_whitespace = TRUE
  /\ include_list_delimiters = TRUE
  /\ i = 0
  /\ list_delim_stack = <<>>
  /\ parse_node_list_stack = <<>>
  /\ parse_result = NoResult
  /\ parse_trees = <<>>
  /\ simplify_include_comments = TRUE
  /\ simplify_include_whitespace = TRUE
  /\ simplified_parse_trees = <<>>
  /\ calls = <<>>

\* One iteration of `for (text_index = 0; text_index < text_length; ...)`.
ScanCharacter ==
  /\ pc = "scan"
  /\ text_index < Len(text)
  /\ LET s == ConsumeCharacter(text, Locals, text_index, line_index, column_index)
         character == CharAt(text, text_index)
     IN /\ mode' = s.mode
        /\ token' = s.token
        /\ tokens' = s.tokens
        /\ multi_line_comment_nesting_level' = s.level
        /\ character_consumption_loop_count' = s.count
        /\ tokenization_result' = s.result
        /\ IF s.result.kind # "none"
           THEN /\ pc' = "tokenized"
                /\ UNCHANGED <<text_index, line_index, column_index>>
           ELSE /\ pc' = "scan"
                /\ text_index' = text_index + 1
                /\ column_index' = AdvanceColumn(character, column_index)
                /\ line_index' = AdvanceLine(character, line_index)
  /\ UNCHANGED <<text, parser_vars, simplify_vars, calls>>

\* The code after the loop: the pending token and the result.
Finalize ==
  /\ pc = "scan"
  /\ text_index >= Len(text)
  /\ LET s == FinalResult(text, Locals)
     IN /\ mode' = s.mode
        /\ token' = s.token
        /\ tokens' = s.tokens
        /\ multi_line_comment_nesting_level' = s.level
        /\ tokenization_result' = s.result
  /\ pc' = "tokenized"
  /\ UNCHANGED <<text, text_index, line_index, column_index,
                 character_consumption_loop_count, parser_vars,
                 simplify_vars, calls>>

(***************************************************************************)
(* parse.                                                                  *)
(***************************************************************************)
\* add_child_length that adds nothing.
parse_node_list_add_child_length_noop(parse_node_list, child) ==
  parse_node_list

parse_node_list_add_child_length(parse_node_list, child) ==
  [parse_node_list EXCEPT !.length = @ + child.length]

\* add_child that pushes the child without adding its length.
parse_node_list_add_child_pushOnly(parse_node_list, child) ==
  [parse_node_list EXCEPT !.value = Append(@, child)]

parse_node_list_add_child(parse_node_list, child) ==
  [parse_node_list EXCEPT !.length = @ + child.length,
                          !.value = Append(@, child)]

\* AddToTop that adds the child whatever the flag.
AddToTop_always(stack, child, include) ==
  [stack EXCEPT ![Len(stack)] =
     parse_node_list_add_child(@, child)]

\* if (include) add_child(stack[stack.length - 1], child) else add_child_length(...)
AddToTop(stack, child, include) ==
  [stack EXCEPT ![Len(stack)] =
     IF include THEN parse_node_list_add_child(@, child)
     ELSE parse_node_list_add_child_length(@, child)]

Pop(stack) == SubSeq(stack, 1, Len(stack) - 1)

Top(stack) == stack[Len(stack)]

\* ParseClose that reports a stray closer as a mismatch.
ParseClose_strayIsMismatch(t, tok, il, delims, nodes) ==
  LET added == AddToTop(nodes, tok, il) IN
  IF Len(delims) = 0
  THEN [delims |-> delims, nodes |-> added,
        result |-> At(ErrResult(ERROR_CODE_DELIM_MISMATCH,
                                Len(delims), "unexpected closing delimiter"),
                      tok.line, tok.column)]
  ELSE
    LET previous_delim_token == Top(delims)
        popped == Pop(delims)
        start_token_lexeme ==
          Substring(t, previous_delim_token.index,
                    previous_delim_token.index + previous_delim_token.length)
        end_token_lexeme == Substring(t, tok.index, tok.index + tok.length)
    IN IF GET_CLOSE_VARIANT(start_token_lexeme) = end_token_lexeme
       THEN IF Len(added) < 2
            THEN [delims |-> popped, nodes |-> added,
                  result |-> ThrowResult("parse node list stack is empty")]
            ELSE [delims |-> popped,
                  nodes |-> AddToTop(Pop(added), Top(added), TRUE),
                  result |-> NoResult]
       ELSE [delims |-> popped, nodes |-> added,
             result |-> Span(ErrResult(ERROR_CODE_DELIM_MISMATCH, Len(popped),
                                       "closing delimiter, saw other than expected"),
                             previous_delim_token.line,
                             previous_delim_token.column,
                             tok.line, tok.column)]

\* ParseClose that reports the nesting level before the pop.
ParseClose_levelBeforePop(t, tok, il, delims, nodes) ==
  LET added == AddToTop(nodes, tok, il) IN
  IF Len(delims) = 0
  THEN [delims |-> delims, nodes |-> added,
        result |-> At(ErrResult(ERROR_CODE_UNEXPECTED_CLOSING_DELIMITER,
                                Len(delims), "unexpected closing delimiter"),
                      tok.line, tok.column)]
  ELSE
    LET previous_delim_token == Top(delims)
        popped == Pop(delims)
        start_token_lexeme ==
          Substring(t, previous_delim_token.index,
                    previous_delim_token.index + previous_delim_token.length)
        end_token_lexeme == Substring(t, tok.index, tok.index + tok.length)
    IN IF GET_CLOSE_VARIANT(start_token_lexeme) = end_token_lexeme
       THEN IF Len(added) < 2
            THEN [delims |-> popped, nodes |-> added,
                  result |-> ThrowResult("parse node list stack is empty")]
            ELSE [delims |-> popped,
                  nodes |-> AddToTop(Pop(added), Top(added), TRUE),
                  result |-> NoResult]
       ELSE [delims |-> popped, nodes |-> added,
             result |-> Span(ErrResult(ERROR_CODE_DELIM_MISMATCH, Len(delims),
                                       "closing delimiter, saw other than expected"),
                             previous_delim_token.line,
                             previous_delim_token.column,
                             tok.line, tok.column)]

\* ParseClose that closes the list whatever the closing delimiter is.
ParseClose_anyCloses(t, tok, il, delims, nodes) ==
  LET added == AddToTop(nodes, tok, il) IN
  IF Len(delims) = 0
  THEN [delims |-> delims, nodes |-> added,
        result |-> At(ErrResult(ERROR_CODE_UNEXPECTED_CLOSING_DELIMITER,
                                Len(delims), "unexpected closing delimiter"),
                      tok.line, tok.column)]
  ELSE
    LET popped == Pop(delims)
    IN IF Len(added) < 2
       THEN [delims |-> popped, nodes |-> added,
             result |-> ThrowResult("parse node list stack is empty")]
       ELSE [delims |-> popped,
             nodes |-> AddToTop(Pop(added), Top(added), TRUE),
             result |-> NoResult]

\* The branch of the token loop for a closing list delimiter.
\* ParseClose that, on a matching closer, pops the delimiter but leaves the
\* finished list on the node stack.
ParseClose_keepsNode(t, tok, il, delims, nodes) ==
  LET added == AddToTop(nodes, tok, il) IN
  IF Len(delims) = 0
  THEN [delims |-> delims, nodes |-> added,
        result |-> At(ErrResult(ERROR_CODE_UNEXPECTED_CLOSING_DELIMITER,
                                Len(delims), "unexpected closing delimiter"),
                      tok.line, tok.column)]
  ELSE
    LET previous_delim_token == Top(delims)
        popped == Pop(delims)
        start_token_lexeme ==
          Substring(t, previous_delim_token.index,
                    previous_delim_token.index + previous_delim_token.length)
        end_token_lexeme == Substring(t, tok.index, tok.index + tok.length)
    IN IF GET_CLOSE_VARIANT(start_token_lexeme) = end_token_lexeme
       THEN [delims |-> popped, nodes |-> added, result |-> NoResult]
       ELSE [delims |-> popped, nodes |-> added,
             result |-> Span(ErrResult(ERROR_CODE_DELIM_MISMATCH, Len(popped),
                                       "closing delimiter, saw other than expected"),
                             previous_delim_token.line,
                             previous_delim_token.column,
                             tok.line, tok.column)]

ParseClose(t, tok, il, delims, nodes) ==
  LET added == AddToTop(nodes, tok, il) IN
  IF Len(delims) = 0
  THEN [delims |-> delims, nodes |-> added,
        result |-> At(ErrResult(ERROR_CODE_UNEXPECTED_CLOSING_DELIMITER,
                                Len(delims), "unexpected closing delimiter"),
                      tok.line, tok.column)]
  ELSE
    LET previous_delim_token == Top(delims)
        popped == Pop(delims)
        start_token_lexeme ==
          Substring(t, previous_delim_token.index,
                    previous_delim_token.index + previous_delim_token.length)
        end_token_lexeme == Substring(t, tok.index, tok.index + tok.length)
    IN IF GET_CLOSE_VARIANT(start_token_lexeme) = end_token_lexeme
       THEN IF Len(added) < 2
            THEN [delims |-> popped, nodes |-> added,
                  result |-> ThrowResult("parse node list stack is empty")]
            ELSE [delims |-> popped,
                  nodes |-> AddToTop(Pop(added), Top(added), TRUE),
                  result |-> NoResult]
       ELSE [delims |-> popped, nodes |-> added,
             result |-> Span(ErrResult(ERROR_CODE_DELIM_MISMATCH, Len(popped),
                                       "closing delimiter, saw other than expected"),
                             previous_delim_token.line,
                             previous_delim_token.column,
                             tok.line, tok.column)]

\* ParseStep that files comments under include_whitespace.
ParseStep_commentsByWhitespaceFlag(t, tok, ic, iw, il, delims, nodes) ==
  IF tok.type = TOKEN_TYPE_WHITESPACE THEN
    [delims |-> delims, nodes |-> AddToTop(nodes, tok, iw), result |-> NoResult]
  ELSE IF tok.type \in {TOKEN_TYPE_WORD, TOKEN_TYPE_DOUBLE_QUOTE_STRING,
                        TOKEN_TYPE_SINGLE_QUOTE_STRING} THEN
    [delims |-> delims, nodes |-> AddToTop(nodes, tok, TRUE), result |-> NoResult]
  ELSE IF tok.type = TOKEN_TYPE_LIST_DELIMITER_OPEN THEN
    [delims |-> Append(delims, tok),
     nodes |-> AddToTop(
       Append(nodes, ParseNodeList(PARSE_NODE_TYPE_LIST, tok.index, 0,
                                   tok.line, tok.column)),
       tok, il),
     result |-> NoResult]
  ELSE IF tok.type \in {TOKEN_TYPE_SINGLE_LINE_COMMENT,
                        TOKEN_TYPE_MULTI_LINE_COMMENT} THEN
    [delims |-> delims, nodes |-> AddToTop(nodes, tok, iw), result |-> NoResult]
  ELSE IF tok.type = TOKEN_TYPE_LIST_DELIMITER_CLOSE THEN
    ParseClose(t, tok, il, delims, nodes)
  ELSE
    [delims |-> delims, nodes |-> nodes,
     result |-> ThrowResult("Unimplemented for token")]

\* The body of `for (let i = 0; i < tokens.length; i += 1)` for one token.
\* ParseStep that remembers an opening delimiter only when delimiters are
\* included.
ParseStep_delimsOnlyIfIncluded(t, tok, ic, iw, il, delims, nodes) ==
  IF tok.type = TOKEN_TYPE_WHITESPACE THEN
    [delims |-> delims, nodes |-> AddToTop(nodes, tok, iw), result |-> NoResult]
  ELSE IF tok.type \in {TOKEN_TYPE_WORD, TOKEN_TYPE_DOUBLE_QUOTE_STRING,
                        TOKEN_TYPE_SINGLE_QUOTE_STRING} THEN
    [delims |-> delims, nodes |-> AddToTop(nodes, tok, TRUE), result |-> NoResult]
  ELSE IF tok.type = TOKEN_TYPE_LIST_DELIMITER_OPEN THEN
    [delims |-> IF il THEN Append(delims, tok) ELSE delims,
     nodes |-> AddToTop(
       Append(nodes, ParseNodeList(PARSE_NODE_TYPE_LIST, tok.index, 0,
                                   tok.line, tok.column)),
       tok, il),
     result |-> NoResult]
  ELSE IF tok.type \in {TOKEN_TYPE_SINGLE_LINE_COMMENT,
                        TOKEN_TYPE_MULTI_LINE_COMMENT} THEN
    [delims |-> delims, nodes |-> AddToTop(nodes, tok, ic), result |-> NoResult]
  ELSE IF tok.type = TOKEN_TYPE_LIST_DELIMITER_CLOSE THEN
    ParseClose(t, tok, il, delims, nodes)
  ELSE
    [delims |-> delims, nodes |-> nodes,
     result |-> ThrowResult("Unimplemented for token")]

ParseStep(t, tok, ic, iw, il, delims, nodes) ==
  IF tok.type = TOKEN_TYPE_WHITESPACE THEN
    [delims |-> delims, nodes |-> AddToTop(nodes, tok, iw), result |-> NoResult]
  ELSE IF tok.type \in {TOKEN_TYPE_WORD, TOKEN_TYPE_DOUBLE_QUOTE_STRING,
                        TOKEN_TYPE_SINGLE_QUOTE_STRING} THEN
    [delims |-> delims, nodes |-> AddToTop(nodes, tok, TRUE), result |-> NoResult]
  ELSE IF tok.type = TOKEN_TYPE_LIST_DELIMITER_OPEN THEN
    [delims |-> Append(delims, tok),
     nodes |-> AddToTop(
       Append(nodes, ParseNodeList(PARSE_NODE_TYPE_LIST, tok.index, 0,
                                   tok.line, tok.column)),
       tok, il),
     result |-> NoResult]
  ELSE IF tok.type \in {TOKEN_TYPE_SINGLE_LINE_COMMENT,
                        TOKEN_TYPE_MULTI_LINE_COMMENT} THEN
    [delims |-> delims, nodes |-> AddToTop(nodes, tok, ic), result |-> NoResult]
  ELSE IF tok.type = TOKEN_TYPE_LIST_DELIMITER_CLOSE THEN
    ParseClose(t, tok, il, delims, nodes)
  ELSE
    [delims |-> delims, nodes |-> nodes,
     result |-> ThrowResult("Unimplemented for token")]

\* ParseEnd without the check of the node stack.
ParseEnd_noCheck(delims, nodes) == OkResult

\* ParseEnd that locates the outermost open delimiter.
ParseEnd_firstOpen(delims, nodes) ==
  IF Len(nodes) # 1
  THEN IF Len(delims) = 0
       THEN ThrowResult("token is undefined")
       ELSE At(ErrResult(ERROR_CODE_UNCLOSED_DELIMITER, Len(delims),
                         "unclosed delimiter"),
               delims[1].line, delims[1].column)
  ELSE OkResult

\* The code of parse after the token loop.
ParseEnd(delims, nodes) ==
  IF Len(nodes) # 1
  THEN IF Len(delims) = 0
       THEN ThrowResult("token is undefined")
       ELSE At(ErrResult(ERROR_CODE_UNCLOSED_DELIMITER, Len(delims),
                         "unclosed delimiter"),
               Top(delims).line, Top(delims).column)
  ELSE OkResult

\* ParseCall that does not return the failure of tokenize.
ParseCall_ignoresFailure(ic, iw, il) ==
  /\ pc = "tokenized"
  /\ include_comments' = ic
  /\ include_whitespace' = iw
  /\ include_list_delimiters' = il
  /\ i' = 0
  /\ parse_trees' = <<>>
  /\ IF FALSE
     THEN /\ parse_result' = tokenization_result
          /\ pc' = "returned"
          /\ UNCHANGED <<list_delim_stack, parse_node_list_stack>>
     ELSE /\ list_delim_stack' = <<>>
          /\ parse_node_list_stack' =
               <<ParseNodeList(PARSE_NODE_TYPE_LIST, 0, 0, 0, 0)>>
          /\ parse_result' = NoResult
          /\ pc' = "parse"
  /\ UNCHANGED <<text, scanner_vars, simplify_vars, calls>>

\* parse(text, include_comments, include_whitespace, include_list_delimiters)
\* up to the token loop.  tokenize(text) does not depend on the flags: the
\* scan that precedes this action is the call of tokenize on line 807.
ParseCall(ic, iw, il) ==
  /\ pc = "tokenized"
  /\ include_comments' = ic
  /\ include_whitespace' = iw
  /\ include_list_delimiters' = il
  /\ i' = 0
  /\ parse_trees' = <<>>
  /\ IF tokenization_result.kind # "ok"
     THEN /\ parse_result' = tokenization_result
          /\ pc' = "returned"
          /\ UNCHANGED <<list_delim_stack, parse_node_list_stack>>
     ELSE /\ list_delim_stack' = <<>>
          /\ parse_node_list_stack' =
               <<ParseNodeList(PARSE_NODE_TYPE_LIST, 0, 0, 0, 0)>>
          /\ parse_result' = NoResult
          /\ pc' = "parse"
  /\ UNCHANGED <<text, scanner_vars, simplify_vars, calls>>

ParseToken ==
  /\ pc = "parse"
  /\ i < Len(tokens)
  /\ LET p == ParseStep(text, tokens[i + 1], include_comments,
                        include_whitespace, include_list_delimiters,
                        list_delim_stack, parse_node_list_stack)
     IN /\ list_delim_stack' = p.delims
        /\ parse_node_list_stack' = p.nodes
        /\ parse_result' = p.result
        /\ IF p.result.kind # "none"
           THEN pc' = "returned" /\ i' = i
           ELSE pc' = "parse" /\ i' = i + 1
  /\ UNCHANGED <<text, scanner_vars, include_comments, include_whitespace,
                 include_list_delimiters, parse_trees, simplify_vars, calls>>

ParseFinish ==
  /\ pc = "parse"
  /\ i >= Len(tokens)
  /\ parse_result' = ParseEnd(list_delim_stack, parse_node_list_stack)
  /\ parse_trees' = IF parse_result'.kind = "ok"
                    THEN parse_node_list_stack[1].value ELSE <<>>
  /\ pc' = "returned"
  /\ UNCHANGED <<text, scanner_vars, include_comments, include_whitespace,
                 include_list_delimiters, i, list_delim_stack,
                 parse_node_list_stack, simplify_vars, calls>>

\* parse as a function of the text, its tokens and the flags: the token
\* loop from token k on, then the code after it.
RECURSIVE ParseTokens(_, _, _, _, _, _, _, _)
ParseTokens(t, toks, k, ic, iw, il, delims, nodes) ==
  IF k >= Len(toks)
  THEN [delims |-> delims, nodes |-> nodes, result |-> NoResult]
  ELSE LET p == ParseStep(t, toks[k + 1], ic, iw, il, delims, nodes)
       IN IF p.result.kind # "none" THEN p
          ELSE ParseTokens(t, toks, k + 1, ic, iw, il, p.delims, p.nodes)

Parse(t, toks, ic, iw, il) ==
  LET p == ParseTokens(t, toks, 0, ic, iw, il, <<>>,
                       <<ParseNodeList(PARSE_NODE_TYPE_LIST, 0, 0, 0, 0)>>)
      r == IF p.result.kind # "none" THEN p.result
           ELSE ParseEnd(p.delims, p.nodes)
  IN [result |-> r,
      parse_trees |-> IF r.kind = "ok" THEN p.nodes[1].value ELSE <<>>]

(***************************************************************************)
(* to_simplified_parse_trees.  A simplified parse node is a string (the    *)
(* lexeme, a sequence of characters), an array of simplified parse nodes,  *)
(* or null.                                                                *)
(***************************************************************************)
SimplifiedNull == [null |-> TRUE, array |-> FALSE, value |-> <<>>]
SimplifiedString(sub_text) ==
  [null |-> FALSE, array |-> FALSE, value |-> sub_text]
SimplifiedArray(elements) ==
  [null |-> FALSE, array |-> TRUE, value |-> elements]

\* The token branch taking text.substring(index, length).
SimplifiedToken_substr(t, tok, ic, iw) ==
  IF ~iw /\ tok.type = TOKEN_TYPE_WHITESPACE THEN SimplifiedNull
  ELSE IF ~ic /\ tok.type \in {TOKEN_TYPE_SINGLE_LINE_COMMENT,
                                TOKEN_TYPE_MULTI_LINE_COMMENT}
  THEN SimplifiedNull
  ELSE SimplifiedString(Substring(t, tok.index, tok.length))

\* The token branch without the test of include_whitespace.
SimplifiedToken_keepWhitespace(t, tok, ic, iw) ==
  IF ~ic /\ tok.type \in {TOKEN_TYPE_SINGLE_LINE_COMMENT,
                                TOKEN_TYPE_MULTI_LINE_COMMENT}
  THEN SimplifiedNull
  ELSE SimplifiedString(Substring(t, tok.index, tok.index + tok.length))

\* The token branch of do_get_simplified_parse_node.
SimplifiedToken(t, tok, ic, iw) ==
  IF ~iw /\ tok.type = TOKEN_TYPE_WHITESPACE THEN SimplifiedNull
  ELSE IF ~ic /\ tok.type \in {TOKEN_TYPE_SINGLE_LINE_COMMENT,
                                TOKEN_TYPE_MULTI_LINE_COMMENT}
  THEN SimplifiedNull
  ELSE SimplifiedString(Substring(t, tok.index, tok.index + tok.length))

RECURSIVE do_get_simplified_parse_node(_, _, _, _)
RECURSIVE SimplifiedNodes(_, _, _, _)

\* The loop `for (i = 0; i < nodes.length; i += 1)` of both functions: the
\* simplified nodes that are not null, in order.
SimplifiedNodes(t, nodes, ic, iw) ==
  IF nodes = <<>> THEN <<>>
  ELSE LET n == do_get_simplified_parse_node(t, Head(nodes), ic, iw)
       IN (IF n.null THEN <<>> ELSE <<n>>)
            \o SimplifiedNodes(t, Tail(nodes), ic, iw)

do_get_simplified_parse_node(t, parse_node, ic, iw) ==
  IF parse_node.type = PARSE_NODE_TYPE_LIST
  THEN SimplifiedArray(SimplifiedNodes(t, parse_node.value, ic, iw))
  ELSE SimplifiedToken(t, parse_node, ic, iw)

to_simplified_parse_trees(t, trees, ic, iw) ==
  SimplifiedNodes(t, trees, ic, iw)

\* A caller simplifies the trees of a successful parse.
SimplifyCall(ic, iw) ==
  /\ pc = "returned"
  /\ parse_result.kind = "ok"
  /\ simplify_include_comments' = ic
  /\ simplify_include_whitespace' = iw
  /\ simplified_parse_trees' = to_simplified_parse_trees(text, parse_trees, ic, iw)
  /\ pc' = "simplified"
  /\ UNCHANGED <<text, scanner_vars, parser_vars, calls>>

Next ==
  \/ ScanCharacter
  \/ Finalize
  \/ \E ic \in BOOLEAN, iw \in BOOLEAN, il \in BOOLEAN : ParseCall(ic, iw, il)
  \/ ParseToken
  \/ ParseFinish
  \/ \E ic \in BOOLEAN, iw \in BOOLEAN : SimplifyCall(ic, iw)

Spec == Init /\ [][Next]_vars

(***************************************************************************)
(* Two calls of parse whose steps interleave.  Every local of tokenize and *)
(* of parse is declared inside the function (let / const), so each call    *)
(* has locals of its own: calls[k] is the record of the locals of call k.  *)
(***************************************************************************)
\* The state of a call at its entry.
InitCall(t, ic, iw, il) ==
  [text |-> t, pc |-> "scan",
   text_index |-> 0, line_index |-> 0, column_index |-> 0,
   tokens |-> <<>>, token |-> NullToken, mode |-> MODE_UNDETERMINED,
   multi_line_comment_nesting_level |-> 0,
   character_consumption_loop_count |-> 0,
   tokenization_result |-> NoResult,
   include_comments |-> ic, include_whitespace |-> iw,
   include_list_delimiters |-> il,
   i |-> 0, list_delim_stack |-> <<>>, parse_node_list_stack |-> <<>>,
   parse_result |-> NoResult, parse_trees |-> <<>>]

CallLocals(c) ==
  [mode |-> c.mode, token |-> c.token, tokens |-> c.tokens,
   level |-> c.multi_line_comment_nesting_level,
   line |-> c.line_index, col |-> c.column_index,
   consumed |-> FALSE, count |-> 0, result |-> NoResult]

\* One iteration of the loop over the text, or the code after it.
CallTokenizeStep(c) ==
  IF c.text_index < Len(c.text)
  THEN LET s == ConsumeCharacter(c.text, CallLocals(c), c.text_index,
                                 c.line_index, c.column_index)
           character == CharAt(c.text, c.text_index)
           d == [c EXCEPT !.mode = s.mode, !.token = s.token,
                          !.tokens = s.tokens,
                          !.multi_line_comment_nesting_level = s.level,
                          !.character_consumption_loop_count = s.count,
                          !.tokenization_result = s.result]
       IN IF s.result.kind # "none"
          THEN [d EXCEPT !.pc = "tokenized"]
          ELSE [d EXCEPT !.text_index = @ + 1,
                         !.column_index = AdvanceColumn(character, @),
                         !.line_index = AdvanceLine(character, @)]
  ELSE LET s == FinalResult(c.text, CallLocals(c))
       IN [c EXCEPT !.mode = s.mode, !.token = s.token, !.tokens = s.tokens,
                    !.multi_line_comment_nesting_level = s.level,
                    !.tokenization_result = s.result,
                    !.pc = "tokenized"]

\* parse from the return of tokenize up to the token loop.
CallParseEntry(c) ==
  IF c.tokenization_result.kind # "ok"
  THEN [c EXCEPT !.parse_result = c.tokenization_result, !.pc = "returned"]
  ELSE [c EXCEPT !.parse_node_list_stack =
                   <<ParseNodeList(PARSE_NODE_TYPE_LIST, 0, 0, 0, 0)>>,
                 !.pc = "parse"]

\* One iteration of the token loop, or the code after it.
CallParseStep(c) ==
  IF c.i < Len(c.tokens)
  THEN LET p == ParseStep(c.text, c.tokens[c.i + 1], c.include_comments,
                          c.include_whitespace, c.include_list_delimiters,
                          c.list_delim_stack, c.parse_node_list_stack)
       IN [c EXCEPT !.list_delim_stack = p.delims,
                    !.parse_node_list_stack = p.nodes,
                    !.parse_result = p.result,
                    !.pc = IF p.result.kind # "none" THEN "returned" ELSE "parse",
                    !.i = IF p.result.kind # "none" THEN @ ELSE @ + 1]
  ELSE LET result == ParseEnd(c.list_delim_stack, c.parse_node_list_stack)
       IN [c EXCEPT !.parse_result = result,
                    !.parse_trees = IF result.kind = "ok"
                                    THEN c.parse_node_list_stack[1].value
                                    ELSE <<>>,
                    !.pc = "returned"]

\* The next step of a call.
CallStep(c) ==
  IF c.pc = "scan" THEN CallTokenizeStep(c)
  ELSE IF c.pc = "tokenized" THEN CallParseEntry(c)
  ELSE IF c.pc = "parse" THEN CallParseStep(c)
  ELSE c

\* The call run alone, to its return.
RECURSIVE RunAlone(_)
RunAlone(c) == IF c.pc = "returned" THEN c ELSE RunAlone(CallStep(c))

TwoInit ==
  /\ text = <<>>
  /\ pc = "calls"
  /\ text_index = 0
  /\ line_index = 0
  /\ column_index = 0
  /\ tokens = <<>>
  /\ token = NullToken
  /\ mode = MODE_UNDETERMINED
  /\ multi_line_comment_nesting_level = 0
  /\ character_consumption_loop_count = 0
  /\ tokenization_result = NoResult
  /\ include_comments = TRUE
  /\ include_whitespace = TRUE
  /\ include_list_delimiters = TRUE
  /\ i = 0
  /\ list_delim_stack = <<>>
  /\ parse_node_list_stack = <<>>
  /\ parse_result = NoResult
  /\ parse_trees = <<>>
  /\ simplify_include_comments = TRUE
  /\ simplify_include_whitespace = TRUE
  /\ simplified_parse_trees = <<>>
  /\ \E t1 \in TextsOver(CallAlphabet, MaxCallLen),
        t2 \in TextsOver(CallAlphabet, MaxCallLen),
        include1 \in BOOLEAN, include2 \in BOOLEAN :
       calls = <<InitCall(t1, include1, include1, include1),
                 InitCall(t2, include2, include2, include2)>>

\* StepCall with `mode` declared outside the functions: one variable for
\* both calls.
StepCall_sharedMode(k) ==
  /\ calls[k].pc # "returned"
  /\ calls' = [j \in 1..2 |->
                IF j = k THEN CallStep(calls[k])
                ELSE [calls[j] EXCEPT !.mode = CallStep(calls[k]).mode]]
  /\ UNCHANGED <<text, pc, scanner_vars, parser_vars, simplify_vars>>

\* Call k takes its next step; the locals of the other call stay.
StepCall(k) ==
  /\ calls[k].pc # "returned"
  /\ calls' = [calls EXCEPT ![k] = CallStep(calls[k])]
  /\ UNCHANGED <<text, pc, scanner_vars, parser_vars, simplify_vars>>

TwoNext == \E k \in 1..2 : StepCall(k)

TwoSpec == TwoInit /\ [][TwoNext]_vars

(***************************************************************************)
(* Definitions used to state the properties.                               *)
(***************************************************************************)
Lexeme(t, tok) == Substring(t, tok.index, tok.index + tok.length)

RECURSIVE ConcatLexemes(_, _)
ConcatLexemes(t, toks) ==
  IF toks = <<>> THEN <<>>
  ELSE Lexeme(t, Head(toks)) \o ConcatLexemes(t, Tail(toks))

Contiguous(toks, n) ==
  IF Len(toks) = 0 THEN n = 0
  ELSE /\ toks[1].index = 0
       /\ \A k \in 1..(Len(toks) - 1) :
            toks[k + 1].index = toks[k].index + toks[k].length
       /\ toks[Len(toks)].index + toks[Len(toks)].length = n

RECURSIVE SumLengths(_)
SumLengths(nodes) ==
  IF nodes = <<>> THEN 0 ELSE Head(nodes).length + SumLengths(Tail(nodes))

IsDelimiterToken(tok) ==
  tok.type \in {TOKEN_TYPE_LIST_DELIMITER_OPEN, TOKEN_TYPE_LIST_DELIMITER_CLOSE}

IsCommentToken(tok) ==
  tok.type \in {TOKEN_TYPE_SINGLE_LINE_COMMENT, TOKEN_TYPE_MULTI_LINE_COMMENT}

\* The characters of the list-delimiter tokens, in order.
DelimiterChars(t, toks) ==
  LET d == SelectSeq(toks, IsDelimiterToken)
  IN [k \in 1..Len(d) |-> CharAt(t, d[k].index)]

Partner(open, close) ==
  <<open, close>> \in {<<"(", ")">>, <<"[", "]">>, <<"{", "}">>}

\* Well-nestedness by rewriting: delete an adjacent pair of partners until
\* none is left; the sequence is well nested iff nothing remains.
RECURSIVE Reduce(_)
Reduce(d) ==
  IF \E k \in 1..(Len(d) - 1) : Partner(d[k], d[k + 1])
  THEN LET k == CHOOSE j \in 1..(Len(d) - 1) : Partner(d[j], d[j + 1])
       IN Reduce(SubSeq(d, 1, k - 1) \o SubSeq(d, k + 2, Len(d)))
  ELSE d

WellNested(d) == Reduce(d) = <<>>

\* The multi-line comment read two characters at a time: from position pos
\* inside a comment of the given depth, the position after the "|#" that
\* returns the depth to 0, or -1 when the text ends first.
RECURSIVE CommentEnd(_, _, _)
CommentEnd(t, pos, depth) ==
  IF pos >= Len(t) THEN -1
  ELSE IF CharAt(t, pos) = "#" /\ CharAt(t, pos + 1) = "|"
  THEN CommentEnd(t, pos + 2, depth + 1)
  ELSE IF CharAt(t, pos) = "|" /\ CharAt(t, pos + 1) = "#"
  THEN IF depth = 1 THEN pos + 2 ELSE CommentEnd(t, pos + 2, depth - 1)
  ELSE CommentEnd(t, pos + 1, depth)

\* Openers minus closers recognised from pos to the end of the text.
RECURSIVE OutstandingDepth(_, _, _)
OutstandingDepth(t, pos, depth) ==
  IF pos >= Len(t) THEN depth
  ELSE IF CharAt(t, pos) = "#" /\ CharAt(t, pos + 1) = "|"
  THEN OutstandingDepth(t, pos + 2, depth + 1)
  ELSE IF CharAt(t, pos) = "|" /\ CharAt(t, pos + 1) = "#"
  THEN OutstandingDepth(t, pos + 2, depth - 1)
  ELSE OutstandingDepth(t, pos + 1, depth)

\* Index in toks of the closing delimiter that matches the opening
\* delimiter before position k, by counting; 0 when there is none.
RECURSIVE MatchingClose(_, _, _)
MatchingClose(toks, k, depth) ==
  IF k > Len(toks) THEN 0
  ELSE IF toks[k].type = TOKEN_TYPE_LIST_DELIMITER_OPEN
  THEN MatchingClose(toks, k + 1, depth + 1)
  ELSE IF toks[k].type = TOKEN_TYPE_LIST_DELIMITER_CLOSE
  THEN IF depth = 1 THEN k ELSE MatchingClose(toks, k + 1, depth - 1)
  ELSE MatchingClose(toks, k + 1, depth)

\* The sum of the lengths of the tokens from the opening delimiter at
\* offset `index` to its matching closing delimiter; -1 when there is none.
SpanOfListAt(toks, index) ==
  IF \E k \in 1..Len(toks) :
       toks[k].index = index /\ toks[k].type = TOKEN_TYPE_LIST_DELIMITER_OPEN
  THEN LET o == CHOOSE k \in 1..Len(toks) : toks[k].index = index
           c == MatchingClose(toks, o + 1, 1)
       IN IF c = 0 THEN -1 ELSE SumLengths(SubSeq(toks, o, c))
  ELSE -1

\* All List nodes of the forest, parents before children.
RECURSIVE ListNodes(_)
ListNodes(nodes) ==
  IF nodes = <<>> THEN <<>>
  ELSE (IF Head(nodes).type = PARSE_NODE_TYPE_LIST
        THEN <<Head(nodes)>> \o ListNodes(Head(nodes).value)
        ELSE <<>>) \o ListNodes(Tail(nodes))

\* The tokens that are not inside any list (nesting depth 0).
RECURSIVE TopLevelTokens(_, _)
TopLevelTokens(toks, depth) ==
  IF toks = <<>> THEN <<>>
  ELSE LET tok == Head(toks) IN
    IF tok.type = TOKEN_TYPE_LIST_DELIMITER_OPEN
    THEN TopLevelTokens(Tail(toks), depth + 1)
    ELSE IF tok.type = TOKEN_TYPE_LIST_DELIMITER_CLOSE
    THEN TopLevelTokens(Tail(toks), depth - 1)
    ELSE (IF depth = 0 THEN <<tok>> ELSE <<>>)
           \o TopLevelTokens(Tail(toks), depth)

\* Total length of the top-level tokens the flags leave out of parse_trees.
DroppedAtTopLevel ==
  LET IsDropped(tok) ==
        \/ ~include_whitespace /\ tok.type = TOKEN_TYPE_WHITESPACE
        \/ ~include_comments /\ IsCommentToken(tok)
  IN SumLengths(SelectSeq(TopLevelTokens(tokens, 0), IsDropped))

TokenizeOk == tokenization_result.kind = "ok"
ParseOk == pc = "returned" /\ parse_result.kind = "ok"

(***************************************************************************)
(* Properties.                                                             *)
(***************************************************************************)

\* C1: when tokenize succeeds the tokens are contiguous and non-overlapping
\* from offset 0 to the end of the text, and the concatenation of their
\* lexemes, in emission order, is the text.
C1_LosslessTokenization ==
  TokenizeOk =>
    /\ Contiguous(tokens, Len(text))
    /\ ConcatLexemes(text, tokens) = text

C1_Witness ==
  /\ TokenizeOk
  /\ Len(tokens) >= 3
  /\ \E k \in 1..Len(tokens) : tokens[k].length >= 2

\* C2: tokenize never raises: its result is never an exception.
C2_NeverRaises == tokenization_result.kind # "throw"

\* C3: if the text ends inside a double-quoted or a single-quoted string,
\* tokenize returns the error UnterminatedString (8).
C3_UnterminatedString ==
  (/\ pc = "tokenized"
   /\ text_index >= Len(text)
   /\ mode \in {MODE_DOUBLE_QUOTE_STRING, MODE_SINGLE_QUOTE_STRING})
  => /\ tokenization_result.kind = "err"
     /\ tokenization_result.error_code = ERROR_CODE_UNTERMINATED_STRING

\* C4: on a text that tokenizes, parse succeeds if and only if the
\* list-delimiter tokens are well nested over the three bracket families.
C4_ParseOkIffWellNested ==
  (pc = "returned" /\ TokenizeOk) =>
    (parse_result.kind = "ok" <=> WellNested(DelimiterChars(text, tokens)))

C4_Witness ==
  /\ ParseOk
  /\ Len(DelimiterChars(text, tokens)) >= 4
  /\ \E k \in 1..Len(tokens) : Lexeme(text, tokens[k]) = <<"[">>

\* C5: a closing delimiter reached while a delimiter is open closes the list
\* iff it is the partner of the most recent open delimiter, and otherwise
\* parse fails with DelimMismatch (4); of the 9 texts open+close the 3
\* same-family pairs parse and the 6 others fail with DelimMismatch.
C5_CloseStep ==
  (/\ pc = "parse"
   /\ i < Len(tokens)
   /\ tokens[i + 1].type = TOKEN_TYPE_LIST_DELIMITER_CLOSE
   /\ Len(list_delim_stack) > 0)
  => IF Partner(CharAt(text, Top(list_delim_stack).index),
                CharAt(text, tokens[i + 1].index))
     THEN /\ parse_result'.kind = "none"
          /\ Len(list_delim_stack') = Len(list_delim_stack) - 1
          /\ Len(parse_node_list_stack') = Len(parse_node_list_stack) - 1
     ELSE /\ pc' = "returned"
          /\ parse_result'.kind = "err"
          /\ parse_result'.error_code = ERROR_CODE_DELIM_MISMATCH

C5_Pairs ==
  (/\ pc = "returned"
   /\ Len(text) = 2
   /\ IsOpenDelimiter(text[1])
   /\ IsCloseDelimiter(text[2]))
  => IF Partner(text[1], text[2])
     THEN parse_result.kind = "ok"
     ELSE /\ parse_result.kind = "err"
          /\ parse_result.error_code = ERROR_CODE_DELIM_MISMATCH

C5_BracketFamilyExclusivity == [][C5_CloseStep]_vars /\ []C5_Pairs

C5_Witness ==
  /\ pc = "returned"
  /\ parse_result.error_code = ERROR_CODE_DELIM_MISMATCH
  /\ Len(list_delim_stack) >= 1

\* C6: a multi-line comment is one token from its "#|" to the "#" of the
\* "|#" that returns the nesting depth to 0, the depth counting every "#|"
\* up and every "|#" down, pairs being read without overlap; until that
\* "|#" is reached the comment stays the pending token.  The nested comment
\* of the tests is a single token covering the whole text.
C6_CommentNesting ==
  /\ \A k \in 1..Len(tokens) :
       tokens[k].type = TOKEN_TYPE_MULTI_LINE_COMMENT =>
         /\ CharAt(text, tokens[k].index) = "#"
         /\ CharAt(text, tokens[k].index + 1) = "|"
         /\ CommentEnd(text, tokens[k].index + 2, 1)
              = tokens[k].index + tokens[k].length
  /\ token.type = TOKEN_TYPE_MULTI_LINE_COMMENT =>
       LET end == CommentEnd(text, token.index + 2, 1)
       IN IF pc = "scan" THEN end = -1 \/ end > text_index ELSE end = -1
  /\ (text = CommentTestText /\ pc # "scan") =>
       /\ TokenizeOk
       /\ Len(tokens) = 1
       /\ tokens[1].type = TOKEN_TYPE_MULTI_LINE_COMMENT
       /\ tokens[1].length = Len(text)

C6_Witness ==
  \E k \in 1..Len(tokens) :
    /\ tokens[k].type = TOKEN_TYPE_MULTI_LINE_COMMENT
    /\ tokens[k].length = 8
    /\ CharAt(text, tokens[k].index + 2) = "#"
    /\ CharAt(text, tokens[k].index + 3) = "|"

C7_Examples ==
  { <<"#", "|">>,
    <<"#", "|", "#">>,
    <<"#", "|", "|">>,
    <<"#", "|", "#", "|">>,
    <<"#", "|", "#", "|", "|">>,
    <<"#", "|", "#", "|", "|", "#">>,
    <<"#", "|", "#", "|", "|", "#", "|">> }

\* C7: if the text ends while a multi-line comment is open, tokenize returns
\* the error UnterminatedMultiLineComment (16) and the number of missing
\* closing delimiters in its message is the number of "#|" recognised minus
\* the number of "|#" recognised, at least 1; the seven truncated comments
\* of the tests fail so.
C7_UnterminatedComment ==
  /\ (pc = "tokenized" /\ token.type = TOKEN_TYPE_MULTI_LINE_COMMENT) =>
       /\ tokenization_result.kind = "err"
       /\ tokenization_result.error_code
            = ERROR_CODE_UNTERMINATED_MULTI_LINE_COMMENT
       /\ tokenization_result.missing = OutstandingDepth(text, token.index, 0)
       /\ tokenization_result.missing >= 1
  /\ (pc = "tokenized" /\ text \in C7_Examples) =>
       /\ tokenization_result.kind = "err"
       /\ tokenization_result.error_code
            = ERROR_CODE_UNTERMINATED_MULTI_LINE_COMMENT

C7_Witness ==
  /\ pc = "tokenized"
  /\ tokenization_result.error_code = ERROR_CODE_UNTERMINATED_MULTI_LINE_COMMENT
  /\ tokenization_result.missing >= 2
  /\ token.index > 0

\* C8: a "|" followed by "#" reached between tokens, or while a Whitespace
\* or a Word token is pending, makes tokenize return the error
\* UnexpectedClosingDelimiter (1) in that step, whatever follows.
C8_Step ==
  (/\ pc = "scan"
   /\ CharAt(text, text_index) = "|"
   /\ CharAt(text, text_index + 1) = "#"
   /\ mode \in {MODE_UNDETERMINED, MODE_WHITESPACE, MODE_WORD})
  => /\ pc' = "tokenized"
     /\ tokenization_result'.kind = "err"
     /\ tokenization_result'.error_code = ERROR_CODE_UNEXPECTED_CLOSING_DELIMITER

C8_StrayCommentClose == [][C8_Step]_vars

C8_Witness ==
  /\ pc = "tokenized"
  /\ tokenization_result.error_code = ERROR_CODE_UNEXPECTED_CLOSING_DELIMITER
  /\ Len(tokens) >= 1
  /\ tokens[Len(tokens)].type = TOKEN_TYPE_WORD
  /\ text_index + 2 < Len(text)

\* C9 as stated: for every text that parses and every combination of the
\* flags, the lengths of the returned parse trees sum to the text length.
C9_TreesSpanText ==
  ParseOk => SumLengths(parse_trees) = Len(text)

\* C9 amended: for every text that parses and every combination of the
\* flags, the length of the synthetic root list is the text length, and the
\* lengths of the returned parse trees sum to the text length less the
\* lengths of the top-level Whitespace tokens when include_whitespace is
\* false and of the top-level comment tokens when include_comments is false.
C9_RootSpansText ==
  ParseOk =>
    /\ parse_node_list_stack[1].length = Len(text)
    /\ SumLengths(parse_trees) = Len(text) - DroppedAtTopLevel

C9_Witness ==
  /\ ParseOk
  /\ ~include_whitespace
  /\ DroppedAtTopLevel > 0
  /\ Len(ListNodes(parse_trees)) >= 1

\* C10: in a successful parse, under every combination of the flags, the
\* length of every List node is the sum of the lengths of all tokens from
\* its opening delimiter to its matching closing delimiter inclusive.
C10_ListSpan ==
  ParseOk =>
    LET lists == ListNodes(parse_trees)
    IN \A k \in 1..Len(lists) :
         lists[k].length = SpanOfListAt(tokens, lists[k].index)

C10_Witness ==
  /\ ParseOk
  /\ ~include_list_delimiters
  /\ ~include_whitespace
  /\ LET lists == ListNodes(parse_trees)
     IN /\ Len(lists) >= 2
        /\ \E k \in 1..Len(lists) :
             /\ lists[k].value = <<>>
             /\ lists[k].length >= 3

(***************************************************************************)
(* Definitions used to state the properties of strings, of the simplify    *)
(* transform, of the flags and of the parser's errors.                     *)
(***************************************************************************)
IsStringToken(tok) ==
  tok.type \in {TOKEN_TYPE_DOUBLE_QUOTE_STRING, TOKEN_TYPE_SINGLE_QUOTE_STRING}

QuoteOf(tok) ==
  IF tok.type = TOKEN_TYPE_DOUBLE_QUOTE_STRING THEN "\"" ELSE "'"

\* The character at p is the quote q and the one before it is no backslash.
Terminates(t, q, p) == CharAt(t, p) = q /\ CharAt(t, p - 1) # "\\"

\* The strings of a simplified forest, depth first, concatenated.
RECURSIVE Flatten(_)
Flatten(simplified) ==
  IF simplified = <<>> THEN <<>>
  ELSE (IF Head(simplified).array THEN Flatten(Head(simplified).value)
        ELSE Head(simplified).value) \o Flatten(Tail(simplified))

\* The strings of a simplified forest, depth first, as a sequence.
RECURSIVE Strings(_)
Strings(simplified) ==
  IF simplified = <<>> THEN <<>>
  ELSE (IF Head(simplified).array THEN Strings(Head(simplified).value)
        ELSE <<Head(simplified).value>>) \o Strings(Tail(simplified))

RECURSIVE CountArrays(_)
CountArrays(simplified) ==
  IF simplified = <<>> THEN 0
  ELSE (IF Head(simplified).array
        THEN 1 + CountArrays(Head(simplified).value) ELSE 0)
       + CountArrays(Tail(simplified))

\* Equality of simplified forests.
RECURSIVE SameSimplified(_, _)
SameSimplified(a, b) ==
  /\ Len(a) = Len(b)
  /\ \A k \in 1..Len(a) :
       /\ a[k].array = b[k].array
       /\ IF a[k].array THEN SameSimplified(a[k].value, b[k].value)
          ELSE a[k].value = b[k].value

\* The simplified forest has the shape of the parse forest: an array for
\* every List, the lexeme for every token, in the same order.
RECURSIVE SameShape(_, _, _)
SameShape(t, nodes, simplified) ==
  /\ Len(nodes) = Len(simplified)
  /\ \A k \in 1..Len(nodes) :
       IF nodes[k].type = PARSE_NODE_TYPE_LIST
       THEN /\ simplified[k].array
            /\ SameShape(t, nodes[k].value, simplified[k].value)
       ELSE /\ ~simplified[k].array
            /\ simplified[k].value = Lexeme(t, nodes[k])

\* Every array begins with an opening delimiter and ends with its partner.
RECURSIVE ArraysDelimited(_)
ArraysDelimited(simplified) ==
  \A k \in 1..Len(simplified) :
    simplified[k].array =>
      LET a == simplified[k].value IN
        /\ Len(a) >= 2
        /\ ~a[1].array
        /\ ~a[Len(a)].array
        /\ Len(a[1].value) = 1
        /\ Len(a[Len(a)].value) = 1
        /\ Partner(a[1].value[1], a[Len(a)].value[1])
        /\ ArraysDelimited(a)

IsWhitespaceLexeme(l) == IsWhitespace(l[1])

IsCommentLexeme(l) ==
  l[1] = ";" \/ (Len(l) >= 2 /\ l[1] = "#" /\ l[2] = "|")

\* The leaf tokens of a parse forest, depth first.
RECURSIVE Leaves(_)
Leaves(nodes) ==
  IF nodes = <<>> THEN <<>>
  ELSE (IF Head(nodes).type = PARSE_NODE_TYPE_LIST
        THEN Leaves(Head(nodes).value) ELSE <<Head(nodes)>>)
       \o Leaves(Tail(nodes))

\* The nesting of the List nodes of a parse forest: "<" where a List
\* begins, ">" where it ends.
RECURSIVE Skeleton(_)
Skeleton(nodes) ==
  IF nodes = <<>> THEN <<>>
  ELSE (IF Head(nodes).type = PARSE_NODE_TYPE_LIST
        THEN <<"<">> \o Skeleton(Head(nodes).value) \o <<">">> ELSE <<>>)
       \o Skeleton(Tail(nodes))

\* The same nesting read off the list-delimiter tokens.
DelimiterSkeleton(toks) ==
  LET d == SelectSeq(toks, IsDelimiterToken)
  IN [k \in 1..Len(d) |->
        IF d[k].type = TOKEN_TYPE_LIST_DELIMITER_OPEN THEN "<" ELSE ">"]

\* The token is kept as a child under the flags of the call.
KeptByFlags(tok) ==
  /\ tok.type = TOKEN_TYPE_WHITESPACE => include_whitespace
  /\ IsCommentToken(tok) => include_comments
  /\ IsDelimiterToken(tok) => include_list_delimiters

\* Opening minus closing delimiters among the first n tokens.
RECURSIVE OpenCount(_, _)
OpenCount(toks, n) ==
  IF n = 0 THEN 0
  ELSE OpenCount(toks, n - 1)
       + (IF toks[n].type = TOKEN_TYPE_LIST_DELIMITER_OPEN THEN 1
          ELSE IF toks[n].type = TOKEN_TYPE_LIST_DELIMITER_CLOSE THEN -1
          ELSE 0)

\* The last opening delimiter that has no matching closing delimiter.
LastUnclosed(toks) ==
  LET IsUnclosed(k) ==
        /\ toks[k].type = TOKEN_TYPE_LIST_DELIMITER_OPEN
        /\ MatchingClose(toks, k + 1, 1) = 0
  IN toks[CHOOSE k \in 1..Len(toks) :
            /\ IsUnclosed(k)
            /\ \A j \in (k + 1)..Len(toks) : ~IsUnclosed(j)]

AllFlags == include_comments /\ include_whitespace /\ include_list_delimiters

Simplified == pc = "simplified"

\* C11: a string token begins with its quote and ends at the first later
\* quote of the same kind whose preceding character is not a backslash
\* (whatever precedes that backslash); every other character, newlines
\* included, stays in the string, and a pending string has met no such quote.
C11_StringTermination ==
  /\ \A k \in 1..Len(tokens) :
       IsStringToken(tokens[k]) =>
         LET q == QuoteOf(tokens[k])
             a == tokens[k].index
             e == tokens[k].index + tokens[k].length - 1
         IN /\ CharAt(text, a) = q
            /\ e > a
            /\ Terminates(text, q, e)
            /\ \A p \in (a + 1)..(e - 1) : ~Terminates(text, q, p)
  /\ IsStringToken(token) =>
       /\ CharAt(text, token.index) = QuoteOf(token)
       /\ token.index + token.length = text_index
       /\ \A p \in (token.index + 1)..(text_index - 1) :
            ~Terminates(text, QuoteOf(token), p)

C11_Witness ==
  \E k \in 1..Len(tokens) :
    /\ IsStringToken(tokens[k])
    /\ \E p \in (tokens[k].index + 3)..(tokens[k].index + tokens[k].length - 2) :
         /\ CharAt(text, p) = QuoteOf(tokens[k])
         /\ CharAt(text, p - 1) = "\\"
         /\ CharAt(text, p - 2) = "\\"

C12_Expected ==
  << SimplifiedString(<<";", " ", "H", "e", "l", "l", "o", "\n">>),
     SimplifiedArray(
       << SimplifiedString(<<"(">>),
          SimplifiedString(<<"s", "a", "y">>),
          SimplifiedString(<<" ">>),
          SimplifiedArray(
            << SimplifiedString(<<"(">>),
               SimplifiedString(<<"n", "a", "m", "e">>),
               SimplifiedString(<<" ">>),
               SimplifiedArray(
                 << SimplifiedString(<<"[">>),
                    SimplifiedString(<<"x">>),
                    SimplifiedString(<<" ">>),
                    SimplifiedString(<<"1">>),
                    SimplifiedString(<<" ">>),
                    SimplifiedString(<<"\"", "y", "\"">>),
                    SimplifiedString(<<"]">>) >>),
               SimplifiedString(<<")">>) >>),
          SimplifiedString(<<")">>) >>) >>

\* C12: with all flags true, simplifying the trees of a successful parse
\* gives an array for every List and the lexeme for every token, in the
\* same order and nesting; every array begins with an opening delimiter and
\* ends with its partner, the strings read depth first make up the text,
\* and the text of the test gives the structure the test expects.
C12_SimplifyPreservesStructure ==
  (/\ Simplified
   /\ AllFlags
   /\ simplify_include_comments
   /\ simplify_include_whitespace)
  => /\ SameShape(text, parse_trees, simplified_parse_trees)
     /\ ArraysDelimited(simplified_parse_trees)
     /\ Flatten(simplified_parse_trees) = text
     /\ text = SimplifyTestText =>
          SameSimplified(simplified_parse_trees, C12_Expected)

C12_Witness ==
  /\ Simplified
  /\ AllFlags
  /\ simplify_include_comments
  /\ simplify_include_whitespace
  /\ text = SimplifyTestText
  /\ CountArrays(simplified_parse_trees) = 3

\* C13: simplifying the trees of parse(text, true, true, true) with the
\* flags (c, w) gives what simplifying the trees of parse(text, c, w, true)
\* with (true, true) gives; under any flags of parse, every List stays as an
\* array, no whitespace lexeme is left when w is false and no comment
\* lexeme when c is false.
C13_SimplifyFiltering ==
  Simplified =>
    /\ AllFlags =>
         SameSimplified(
           simplified_parse_trees,
           to_simplified_parse_trees(
             text,
             Parse(text, tokens, simplify_include_comments,
                   simplify_include_whitespace, TRUE).parse_trees,
             TRUE, TRUE))
    /\ CountArrays(simplified_parse_trees) = Len(ListNodes(parse_trees))
    /\ LET strings == Strings(simplified_parse_trees)
       IN \A k \in 1..Len(strings) :
            /\ ~simplify_include_whitespace => ~IsWhitespaceLexeme(strings[k])
            /\ ~simplify_include_comments => ~IsCommentLexeme(strings[k])

C13_Witness ==
  /\ Simplified
  /\ AllFlags
  /\ ~simplify_include_comments
  /\ ~simplify_include_whitespace
  /\ Len(ListNodes(parse_trees)) >= 1
  /\ \E k \in 1..Len(tokens) : tokens[k].type = TOKEN_TYPE_WHITESPACE
  /\ \E k \in 1..Len(tokens) : IsCommentToken(tokens[k])

\* C14: in a successful parse the leaf tokens of the returned trees, depth
\* first, are the tokens less the Whitespace tokens iff include_whitespace
\* is false, the comment tokens iff include_comments is false and the
\* list-delimiter tokens iff include_list_delimiters is false; the number
\* and nesting of the List nodes is that of the delimiter tokens, whatever
\* the flags.
C14_FlagsFilterOwnCategory ==
  ParseOk =>
    /\ Leaves(parse_trees) = SelectSeq(tokens, KeptByFlags)
    /\ Skeleton(parse_trees) = DelimiterSkeleton(tokens)

C14_Witness ==
  /\ ParseOk
  /\ text = SimplifyTestText
  /\ ~include_comments
  /\ include_whitespace
  /\ ~include_list_delimiters

\* C15: parse of the empty text succeeds with zero parse trees; parse of a
\* text that is only whitespace, or only one comment, succeeds with that one
\* token as the only tree when the flag of its category is true and with
\* zero trees when it is false.
C15_EmptyAndTrivia ==
  /\ (pc = "returned" /\ text = <<>>) =>
       parse_result.kind = "ok" /\ parse_trees = <<>>
  /\ (/\ pc = "returned"
      /\ text # <<>>
      /\ \A k \in 1..Len(text) : IsWhitespace(text[k]))
     => /\ parse_result.kind = "ok"
        /\ Len(tokens) = 1
        /\ tokens[1].type = TOKEN_TYPE_WHITESPACE
  /\ (/\ pc = "returned"
      /\ TokenizeOk
      /\ Len(tokens) = 1
      /\ tokens[1].type = TOKEN_TYPE_WHITESPACE \/ IsCommentToken(tokens[1]))
     => /\ parse_result.kind = "ok"
        /\ parse_trees = IF KeptByFlags(tokens[1]) THEN tokens ELSE <<>>

C15_Witness ==
  /\ ParseOk
  /\ Len(tokens) = 1
  /\ tokens[1].type = TOKEN_TYPE_MULTI_LINE_COMMENT
  /\ ~include_comments
  /\ parse_trees = <<>>

\* C16: when tokenize fails, parse returns the failure of tokenize and
\* nothing else, under every combination of the flags, also when a stray,
\* mismatched or unclosed list delimiter comes before the lexical defect.
C16_TokenizerFailurePropagates ==
  (pc = "returned" /\ tokenization_result.kind = "err") =>
    /\ parse_result = tokenization_result
    /\ parse_result.nesting = -1
    /\ parse_trees = <<>>

C16_Witness ==
  /\ pc = "returned"
  /\ tokenization_result.kind = "err"
  /\ ~include_list_delimiters
  /\ Len(tokens) >= 1
  /\ tokens[1].type = TOKEN_TYPE_LIST_DELIMITER_CLOSE

C17_Examples ==
  { <<")">>, <<")", ")">>, <<"(", ")", ")">>, <<")", " ", "a">> }

\* C17: a closing delimiter reached while no delimiter is open makes parse
\* return the error UnexpectedClosingDelimiter (1) in that step, whatever
\* follows and whatever the flags; the four examples fail so.
C17_Step ==
  (/\ pc = "parse"
   /\ i < Len(tokens)
   /\ tokens[i + 1].type = TOKEN_TYPE_LIST_DELIMITER_CLOSE
   /\ OpenCount(tokens, i) = 0)
  => /\ pc' = "returned"
     /\ parse_result'.kind = "err"
     /\ parse_result'.error_code = ERROR_CODE_UNEXPECTED_CLOSING_DELIMITER

C17_Cases ==
  (pc = "returned" /\ text \in C17_Examples) =>
    /\ parse_result.kind = "err"
    /\ parse_result.error_code = ERROR_CODE_UNEXPECTED_CLOSING_DELIMITER

C17_StrayClose == [][C17_Step]_vars /\ []C17_Cases

C17_Witness ==
  /\ pc = "returned"
  /\ parse_result.error_code = ERROR_CODE_UNEXPECTED_CLOSING_DELIMITER
  /\ TokenizeOk
  /\ ~include_list_delimiters
  /\ i >= 2
  /\ i + 1 < Len(tokens)

\* C18 as stated: on DelimMismatch and UnexpectedClosingDelimiter the
\* nesting level is the number of opening delimiters still open when the
\* failing closing token is reached.
C18_LevelIsOpenCount ==
  (/\ pc = "returned"
   /\ TokenizeOk
   /\ parse_result.kind = "err"
   /\ parse_result.error_code \in {ERROR_CODE_UNEXPECTED_CLOSING_DELIMITER,
                                   ERROR_CODE_DELIM_MISMATCH})
  => parse_result.nesting = OpenCount(tokens, i)

\* C18 amended: the nesting level is the depth of the delimiter stack when
\* the failure is returned: 0 on UnexpectedClosingDelimiter, where no
\* delimiter is open, and on DelimMismatch the number of opening delimiters
\* still open when the failing closing token is reached less one, the
\* mismatched opening delimiter having been popped.
C18_LevelAfterPop ==
  (/\ pc = "returned"
   /\ TokenizeOk
   /\ parse_result.kind = "err")
  => /\ parse_result.error_code = ERROR_CODE_UNEXPECTED_CLOSING_DELIMITER =>
          parse_result.nesting = 0 /\ OpenCount(tokens, i) = 0
     /\ parse_result.error_code = ERROR_CODE_DELIM_MISMATCH =>
          /\ parse_result.nesting = OpenCount(tokens, i) - 1
          /\ parse_result.nesting >= 0
          /\ parse_result.nesting = Len(list_delim_stack)

C18_Witness ==
  /\ pc = "returned"
  /\ parse_result.error_code = ERROR_CODE_DELIM_MISMATCH
  /\ parse_result.nesting = 2
  /\ OpenCount(tokens, i) = 3

\* C19: when every token is consumed without a stray or mismatched closing
\* delimiter and a delimiter is still open, parse returns the error
\* UnclosedDelimiter (2), its nesting level is the number of delimiters
\* still open, and its diagnostic is at the line and column of the last
\* opening delimiter that is still open.
C19_UnclosedDelimiter ==
  (/\ pc = "returned"
   /\ TokenizeOk
   /\ parse_result.error_code \notin {ERROR_CODE_UNEXPECTED_CLOSING_DELIMITER,
                                      ERROR_CODE_DELIM_MISMATCH}
   /\ OpenCount(tokens, Len(tokens)) > 0)
  => /\ parse_result.kind = "err"
     /\ parse_result.error_code = ERROR_CODE_UNCLOSED_DELIMITER
     /\ parse_result.nesting = OpenCount(tokens, Len(tokens))
     /\ parse_result.nesting >= 1
     /\ parse_result.line = LastUnclosed(tokens).line
     /\ parse_result.column = LastUnclosed(tokens).column

C19_Witness ==
  /\ pc = "returned"
  /\ parse_result.error_code = ERROR_CODE_UNCLOSED_DELIMITER
  /\ parse_result.nesting >= 2
  /\ parse_result.line >= 1
  /\ \E k \in 1..Len(tokens) : tokens[k].type = TOKEN_TYPE_LIST_DELIMITER_CLOSE

\* C20: when the text ends in Whitespace, SingleLineComment or Word mode,
\* the pending token is emitted as the last token, spanning up to the end
\* of the text, and tokenize succeeds.
C20_Step ==
  (/\ pc = "scan"
   /\ text_index >= Len(text)
   /\ mode \in {MODE_WHITESPACE, MODE_SINGLE_LINE_COMMENT, MODE_WORD})
  => /\ pc' = "tokenized"
     /\ tokenization_result'.kind = "ok"
     /\ Len(tokens') = Len(tokens) + 1
     /\ SubSeq(tokens', 1, Len(tokens)) = tokens
     /\ tokens'[Len(tokens')].type = token.type
     /\ tokens'[Len(tokens')].index = token.index
     /\ tokens'[Len(tokens')].index + tokens'[Len(tokens')].length = Len(text)

C20_EndOfInputFinalization == [][C20_Step]_vars

C20_Witness ==
  /\ pc = "tokenized"
  /\ TokenizeOk
  /\ Len(tokens) >= 2
  /\ tokens[Len(tokens)].type = TOKEN_TYPE_SINGLE_LINE_COMMENT
  /\ text[Len(text)] # "\n"

(***************************************************************************)
(* Positions, error codes, diagnostics and the decision loop.              *)
(***************************************************************************)
\* The number of "\n" in text[0, offset).
LineOf(t, offset) ==
  Cardinality({p \in 0..(offset - 1) : CharAt(t, p) = "\n"})

\* The number of characters between the last "\n" before offset (or the
\* start of the text) and offset.
ColumnOf(t, offset) ==
  LET newlines == {p \in 0..(offset - 1) : CharAt(t, p) = "\n"}
  IN IF newlines = {} THEN offset
     ELSE offset - 1 - (CHOOSE p \in newlines : \A q \in newlines : q <= p)

HasNewline(lexeme) == \E k \in 1..Len(lexeme) : lexeme[k] = "\n"

\* C21: the line of every emitted token is the number of "\n" before its
\* first character and its column the number of characters after the last
\* of them (or after the start of the text); so for tokens of every kind,
\* the pending token included, also after strings and comments that span
\* lines.
C21_TokenPositions ==
  /\ \A k \in 1..Len(tokens) :
       /\ tokens[k].line = LineOf(text, tokens[k].index)
       /\ tokens[k].column = ColumnOf(text, tokens[k].index)
  /\ token # NullToken =>
       /\ token.line = LineOf(text, token.index)
       /\ token.column = ColumnOf(text, token.index)

C21_Witness ==
  \E k \in 2..Len(tokens) :
    /\ IsStringToken(tokens[k - 1])
         \/ tokens[k - 1].type = TOKEN_TYPE_MULTI_LINE_COMMENT
    /\ HasNewline(Lexeme(text, tokens[k - 1]))
    /\ tokens[k].line >= 2
    /\ tokens[k].column >= 1

\* C22: an error of tokenize has the code 1, 8 or 16; an error of parse has
\* a code among 1, 2, 4, 8, 16, and the code 2 or 4 only when tokenize
\* succeeded.
C22_ClosedTaxonomy ==
  /\ tokenization_result.kind = "err" =>
       tokenization_result.error_code \in
         {ERROR_CODE_UNEXPECTED_CLOSING_DELIMITER,
          ERROR_CODE_UNTERMINATED_STRING,
          ERROR_CODE_UNTERMINATED_MULTI_LINE_COMMENT}
  /\ parse_result.kind = "err" =>
       /\ parse_result.error_code \in
            {ERROR_CODE_UNEXPECTED_CLOSING_DELIMITER,
             ERROR_CODE_UNCLOSED_DELIMITER,
             ERROR_CODE_DELIM_MISMATCH,
             ERROR_CODE_UNTERMINATED_STRING,
             ERROR_CODE_UNTERMINATED_MULTI_LINE_COMMENT}
       /\ parse_result.error_code \in {ERROR_CODE_UNCLOSED_DELIMITER,
                                       ERROR_CODE_DELIM_MISMATCH}
            => tokenization_result.kind = "ok"

C22_Witness ==
  /\ pc = "returned"
  /\ parse_result.kind = "err"
  /\ parse_result.error_code = ERROR_CODE_UNTERMINATED_STRING
  /\ Len(tokens) >= 1
  /\ tokens[1].type = TOKEN_TYPE_LIST_DELIMITER_OPEN

\* The rows of a diagnostic that show a line of the text.
SourceRows(rows) == SelectSeq(rows, LAMBDA row : row # Elision)

SpansText(result) ==
  /\ result.kind = "err"
  /\ result.error_code \in {ERROR_CODE_UNTERMINATED_STRING,
                            ERROR_CODE_UNTERMINATED_MULTI_LINE_COMMENT,
                            ERROR_CODE_DELIM_MISMATCH}

SizeTiers(result) ==
  LET N == result.line - result.start_line + 1 IN
  SpansText(result) =>
    /\ N = 1 => result.rows = <<result.line>>
    /\ (2 <= N /\ N <= 5) =>
         result.rows = [k \in 1..N |-> result.start_line + k - 1]
    /\ N > 5 =>
         result.rows = <<result.start_line, result.start_line + 1, Elision,
                         result.line - 1, result.line>>
    /\ Len(SourceRows(result.rows)) <= 5

\* C24: a diagnostic of UnterminatedString, UnterminatedMultiLineComment
\* or DelimMismatch whose span covers N lines shows 1 line of the text when
\* N = 1, all N lines when 2 <= N <= 5, and the first two and the last two
\* lines around one elision row when N > 5: never more than 5 lines.
C24_SizeTiers ==
  /\ SizeTiers(tokenization_result)
  /\ SizeTiers(parse_result)

\* C25: the decision loop runs at most twice for a character and its limit
\* is never reached; it runs twice only from Whitespace or Word mode, the
\* first time to emit the pending token, and every iteration of the loop
\* over the text moves on by one character or ends tokenize.
C25_Step ==
  (pc = "scan" /\ text_index < Len(text)) =>
    /\ character_consumption_loop_count' <= 2
    /\ tokenization_result'.what # "loop limit reached"
    /\ mode \notin {MODE_WHITESPACE, MODE_WORD} =>
         character_consumption_loop_count' <= 1
    /\ character_consumption_loop_count' = 2 =>
         /\ Len(tokens') >= Len(tokens) + 1
         /\ tokens'[Len(tokens) + 1] = WithValue(text, token)
    /\ \/ pc' = "scan" /\ text_index' = text_index + 1
       \/ pc' = "tokenized" /\ tokenization_result'.kind # "none"

C25_BoundedDecisionLoop == [][C25_Step]_vars

C25_Witness ==
  /\ pc = "scan"
  /\ character_consumption_loop_count = 2
  /\ Len(tokens) >= 2
  /\ tokens[Len(tokens)].type = TOKEN_TYPE_LIST_DELIMITER_CLOSE
  /\ tokens[Len(tokens) - 1].type = TOKEN_TYPE_WORD

\* What a call gives back.
Outcome(c) ==
  <<c.tokenization_result, c.tokens, c.parse_result, Leaves(c.parse_trees),
    Skeleton(c.parse_trees)>>

\* The variables of the single call as the record of a call.
ThisCall ==
  [text |-> text, pc |-> pc,
   text_index |-> text_index, line_index |-> line_index,
   column_index |-> column_index,
   tokens |-> tokens, token |-> token, mode |-> mode,
   multi_line_comment_nesting_level |-> multi_line_comment_nesting_level,
   character_consumption_loop_count |-> character_consumption_loop_count,
   tokenization_result |-> tokenization_result,
   include_comments |-> include_comments,
   include_whitespace |-> include_whitespace,
   include_list_delimiters |-> include_list_delimiters,
   i |-> i, list_delim_stack |-> list_delim_stack,
   parse_node_list_stack |-> parse_node_list_stack,
   parse_result |-> parse_result, parse_trees |-> parse_trees]

StillOpen(k) == Reduce(DelimiterChars(text, SubSeq(tokens, 1, k - 1)))

IsStray(k) ==
  /\ tokens[k].type = TOKEN_TYPE_LIST_DELIMITER_CLOSE
  /\ StillOpen(k) = <<>>

IsMismatched(k) ==
  /\ tokens[k].type = TOKEN_TYPE_LIST_DELIMITER_CLOSE
  /\ StillOpen(k) # <<>>
  /\ ~Partner(StillOpen(k)[Len(StillOpen(k))], CharAt(text, tokens[k].index))

EarliestDefect ==
  CHOOSE k \in 1..Len(tokens) :
    /\ IsStray(k) \/ IsMismatched(k)
    /\ \A j \in 1..(k - 1) : ~(IsStray(j) \/ IsMismatched(j))

C26_Examples == { <<"(", "]">>, <<"(", "(", "]">> }

\* C26: when the tokens of a tokenizable text hold a stray or mismatched
\* closing delimiter, parse fails with the error of the earliest of them,
\* located at that token; it fails with UnclosedDelimiter only when they
\* hold none.  "(]" and "((]" give DelimMismatch.
C26_EarliestDefect ==
  (pc = "returned" /\ TokenizeOk) =>
    /\ IF \E k \in 1..Len(tokens) : IsStray(k) \/ IsMismatched(k)
       THEN /\ parse_result.kind = "err"
            /\ parse_result.error_code =
                 IF IsStray(EarliestDefect)
                 THEN ERROR_CODE_UNEXPECTED_CLOSING_DELIMITER
                 ELSE ERROR_CODE_DELIM_MISMATCH
            /\ i = EarliestDefect - 1
            /\ parse_result.line = tokens[EarliestDefect].line
            /\ parse_result.column = tokens[EarliestDefect].column
       ELSE parse_result.kind = "err" =>
              parse_result.error_code = ERROR_CODE_UNCLOSED_DELIMITER
    /\ text \in C26_Examples =>
         parse_result.error_code = ERROR_CODE_DELIM_MISMATCH

C26_Witness ==
  /\ pc = "returned"
  /\ TokenizeOk
  /\ parse_result.error_code = ERROR_CODE_DELIM_MISMATCH
  /\ OpenCount(tokens, i) >= 2
  /\ \E k \in (i + 2)..Len(tokens) :
       tokens[k].type = TOKEN_TYPE_LIST_DELIMITER_CLOSE

\* C27: every List node of a successful parse has the offset, line and
\* column of an opening delimiter token and ends with the closing delimiter
\* that matches it, a partner of the opening one, under every combination
\* of the flags.
C27_ListSource ==
  ParseOk =>
    LET lists == ListNodes(parse_trees) IN
    \A n \in 1..Len(lists) :
      \E k \in 1..Len(tokens) :
        /\ tokens[k].type = TOKEN_TYPE_LIST_DELIMITER_OPEN
        /\ tokens[k].index = lists[n].index
        /\ tokens[k].line = lists[n].line
        /\ tokens[k].column = lists[n].column
        /\ IsOpenDelimiter(CharAt(text, lists[n].index))
        /\ LET c == MatchingClose(tokens, k + 1, 1)
           IN /\ c # 0
              /\ lists[n].index + lists[n].length = tokens[c].index + 1
              /\ Partner(CharAt(text, lists[n].index),
                         CharAt(text, lists[n].index + lists[n].length - 1))

C27_Witness ==
  /\ ParseOk
  /\ ~include_list_delimiters
  /\ LET lists == ListNodes(parse_trees) IN
     \E n \in 1..Len(lists) :
       /\ lists[n].line >= 1
       /\ lists[n].column >= 1
       /\ lists[n].length >= 3

\* C28: a SingleLineComment token begins with ";" and ends with the first
\* "\n" after it, or at the end of the text when there is none, whatever
\* the characters in between are; the token after a comment that ends with
\* "\n" is at column 0 of the next line.
C28_SingleLineComment ==
  /\ \A k \in 1..Len(tokens) :
       tokens[k].type = TOKEN_TYPE_SINGLE_LINE_COMMENT =>
         LET a == tokens[k].index
             e == tokens[k].index + tokens[k].length - 1
         IN /\ CharAt(text, a) = ";"
            /\ \A p \in a..(e - 1) : CharAt(text, p) # "\n"
            /\ CharAt(text, e) = "\n" \/ e = Len(text) - 1
            /\ (CharAt(text, e) = "\n" /\ k < Len(tokens)) =>
                 /\ tokens[k + 1].index = e + 1
                 /\ tokens[k + 1].column = 0
                 /\ tokens[k + 1].line = tokens[k].line + 1
  /\ token.type = TOKEN_TYPE_SINGLE_LINE_COMMENT =>
       /\ CharAt(text, token.index) = ";"
       /\ token.index + token.length = text_index
       /\ \A p \in token.index..(text_index - 1) : CharAt(text, p) # "\n"

C28_Witness ==
  \E k \in 1..(Len(tokens) - 1) :
    /\ tokens[k].type = TOKEN_TYPE_SINGLE_LINE_COMMENT
    /\ tokens[k].length >= 4
    /\ \E p \in (tokens[k].index + 1)..(tokens[k].index + tokens[k].length - 2) :
         CharAt(text, p) = ";"
    /\ \E p \in (tokens[k].index + 1)..(tokens[k].index + tokens[k].length - 2) :
         IsListDelimiter(CharAt(text, p))
    /\ tokens[k + 1].type = TOKEN_TYPE_WORD

\* C29: no character of a Word token is whitespace, ";", a quote or a list
\* delimiter, or begins "#|" or "|#" in the text; every character of a
\* Whitespace token is whitespace; no two consecutive tokens are both Word
\* or both Whitespace.
C29_MaximalRuns ==
  /\ \A k \in 1..Len(tokens) :
       \A p \in tokens[k].index..(tokens[k].index + tokens[k].length - 1) :
         LET character == CharAt(text, p) IN
         /\ tokens[k].type = TOKEN_TYPE_WORD =>
              /\ ~IsWhitespace(character)
              /\ character \notin {";", "\"", "'"}
              /\ ~IsListDelimiter(character)
              /\ ~(character = "#" /\ CharAt(text, p + 1) = "|")
              /\ ~(character = "|" /\ CharAt(text, p + 1) = "#")
         /\ tokens[k].type = TOKEN_TYPE_WHITESPACE => IsWhitespace(character)
  /\ \A k \in 1..(Len(tokens) - 1) :
       tokens[k].type \in {TOKEN_TYPE_WORD, TOKEN_TYPE_WHITESPACE} =>
         tokens[k + 1].type # tokens[k].type

C29_Witness ==
  /\ pc = "tokenized"
  /\ TokenizeOk
  /\ \E k \in 1..(Len(tokens) - 1) :
       /\ tokens[k].type = TOKEN_TYPE_WORD
       /\ \E p \in 1..tokens[k].length : Lexeme(text, tokens[k])[p] = "#"
       /\ \E p \in 1..tokens[k].length : Lexeme(text, tokens[k])[p] = "|"
       /\ tokens[k + 1].type = TOKEN_TYPE_MULTI_LINE_COMMENT

\* The token, emitted or pending, that holds the character at offset p.
Holds(tok, p) == tok.index <= p /\ p < tok.index + tok.length

\* C30: every emitted token has a length of at least 1; a list-delimiter
\* token has length 1 and is Open iff its character is "(", "[" or "{" and
\* Close iff it is ")", "]" or "}"; every bracket character scanned is such
\* a token unless it lies in a string or a comment.
C30_DelimiterTokens ==
  /\ \A k \in 1..Len(tokens) :
       /\ tokens[k].length >= 1
       /\ IsDelimiterToken(tokens[k]) =>
            /\ tokens[k].length = 1
            /\ tokens[k].type = TOKEN_TYPE_LIST_DELIMITER_OPEN
                 <=> CharAt(text, tokens[k].index) \in {"(", "[", "{"}
            /\ tokens[k].type = TOKEN_TYPE_LIST_DELIMITER_CLOSE
                 <=> CharAt(text, tokens[k].index) \in {")", "]", "}"}
  /\ \A p \in 0..(text_index - 1) :
       CharAt(text, p) \in {"(", "[", "{", ")", "]", "}"} =>
         \/ \E k \in 1..Len(tokens) :
              /\ Holds(tokens[k], p)
              /\ \/ IsDelimiterToken(tokens[k])
                 \/ IsStringToken(tokens[k])
                 \/ IsCommentToken(tokens[k])
         \/ /\ Holds(token, p)
            /\ IsStringToken(token) \/ IsCommentToken(token)

C30_Witness ==
  /\ pc = "tokenized"
  /\ TokenizeOk
  /\ \E k \in 1..Len(tokens) : tokens[k].type = TOKEN_TYPE_LIST_DELIMITER_OPEN
  /\ \E k \in 1..Len(tokens) : tokens[k].type = TOKEN_TYPE_LIST_DELIMITER_CLOSE
  /\ \E k \in 1..Len(tokens) :
       /\ IsCommentToken(tokens[k])
       /\ \E p \in tokens[k].index..(tokens[k].index + tokens[k].length - 1) :
            IsListDelimiter(CharAt(text, p))

(***************************************************************************)
(* Inert content of strings and comments.                                  *)
(***************************************************************************)

\* The first position from pos on where a string opened by q ends, or -1.
RECURSIVE FirstTerminator(_, _, _)
FirstTerminator(t, q, pos) ==
  IF pos >= Len(t) THEN -1
  ELSE IF Terminates(t, q, pos) THEN pos
  ELSE FirstTerminator(t, q, pos + 1)

\* The first position from pos on that holds a newline, or the text's length.
RECURSIVE LineEnd(_, _)
LineEnd(t, pos) ==
  IF pos >= Len(t) \/ CharAt(t, pos) = "\n" THEN pos ELSE LineEnd(t, pos + 1)

\* The bracket characters of the text from p on that lie outside every
\* string and comment, read off the characters alone: a quote skips to its
\* terminator, ";" to the end of its line, "#|" to its balancing "|#"; the
\* reading stops where a string or comment is left open or a "|#" is stray.
RECURSIVE OutsideBrackets(_, _)
OutsideBrackets(t, p) ==
  IF p >= Len(t) THEN <<>>
  ELSE LET c == CharAt(t, p) IN
    IF IsListDelimiter(c) THEN <<c>> \o OutsideBrackets(t, p + 1)
    ELSE IF c \in {"\"", "'"} THEN
      LET e == FirstTerminator(t, c, p + 1)
      IN IF e = -1 THEN <<>> ELSE OutsideBrackets(t, e + 1)
    ELSE IF c = ";" THEN OutsideBrackets(t, LineEnd(t, p + 1) + 1)
    ELSE IF c = "#" /\ CharAt(t, p + 1) = "|" THEN
      LET e == CommentEnd(t, p + 2, 1)
      IN IF e = -1 THEN <<>> ELSE OutsideBrackets(t, e)
    ELSE IF c = "|" /\ CharAt(t, p + 1) = "#" THEN <<>>
    ELSE OutsideBrackets(t, p + 1)

IsPrefix(a, b) == Len(a) <= Len(b) /\ a = SubSeq(b, 1, Len(a))

C31_Examples ==
  {<<"\"", "(", "\"">>, <<"'", "|", "#", "'">>, <<"#", "|", "(", "|", "#">>,
   <<";", " ", ")">>}

\* C31: the content of strings and comments is inert for delimiter
\* matching.  The list-delimiter tokens are exactly the bracket characters
\* outside every string and comment (a bracket, quote, ";", "#|" or "|#"
\* inside a string, and a bracket, quote or ";" inside a comment, gives no
\* token of its own), so for a text that tokenizes parse succeeds iff those
\* outside brackets are well nested; parse of "(" in double quotes, of '|#'
\* in single quotes, of #|(|# and of "; )" succeeds.
C31_InertContent ==
  /\ IsPrefix(DelimiterChars(text, tokens), OutsideBrackets(text, 0))
  /\ pc # "scan" /\ TokenizeOk =>
       DelimiterChars(text, tokens) = OutsideBrackets(text, 0)
  /\ pc = "returned" /\ TokenizeOk =>
       (parse_result.kind = "ok" <=> WellNested(OutsideBrackets(text, 0)))
  /\ pc = "returned" /\ text \in C31_Examples => parse_result.kind = "ok"

C31_Witness ==
  /\ ParseOk
  /\ Len(DelimiterChars(text, tokens)) = 2
  /\ \E k \in 1..Len(tokens) :
       /\ IsStringToken(tokens[k])
       /\ \E p \in tokens[k].index..(tokens[k].index + tokens[k].length - 1) :
            CharAt(text, p) = ")"
  /\ ~WellNested(SelectSeq(text, IsListDelimiter))

(***************************************************************************)
(* The include flags and the verdict.                                      *)
(***************************************************************************)

\* C32: the include flags do not influence the verdict.  Whatever flags the
\* call was made with, its result (ok or not, and on failure the error
\* code, the message's content and positions, and data.nesting_level) is
\* the result of parse of the same text under each of the 8 combinations
\* of include_comments, include_whitespace and include_list_delimiters;
\* when tokenize failed it is tokenize's result under every combination.
C32_FlagsDoNotChangeVerdict ==
  pc = "returned" =>
    IF TokenizeOk
    THEN \A ic \in BOOLEAN, iw \in BOOLEAN, il \in BOOLEAN :
           Parse(text, tokens, ic, iw, il).result = parse_result
    ELSE parse_result = tokenization_result

C32_Witness ==
  /\ pc = "returned"
  /\ TokenizeOk
  /\ ~include_comments /\ ~include_whitespace /\ ~include_list_delimiters
  /\ parse_result.kind = "err"
  /\ parse_result.error_code = ERROR_CODE_UNCLOSED_DELIMITER
  /\ parse_result.nesting >= 1
  /\ \E k \in 1..Len(tokens) : tokens[k].type = TOKEN_TYPE_WHITESPACE
  /\ \E k \in 1..Len(tokens) : IsCommentToken(tokens[k])

(***************************************************************************)
(* The parser's two stacks.                                                *)
(***************************************************************************)

\* C33: parser stack invariant.  While the token loop runs (every token so
\* far was processed without error) the node stack holds exactly one more
\* element than the delimiter stack, its bottom is the synthetic root (a
\* List at offset, line and column 0), and the j-th open delimiter token is
\* the opener of the (j+1)-th node of the node stack; hence "the node stack
\* has more than one element" is equivalent to "the delimiter stack is not
\* empty", and parse of a tokenized text never ends in a failed assertion.
C33_StackInvariant ==
  /\ pc = "parse" =>
       /\ Len(parse_node_list_stack) = Len(list_delim_stack) + 1
       /\ parse_node_list_stack[1].type = PARSE_NODE_TYPE_LIST
       /\ parse_node_list_stack[1].index = 0
       /\ parse_node_list_stack[1].line = 0
       /\ parse_node_list_stack[1].column = 0
       /\ \A j \in 1..Len(list_delim_stack) :
            /\ list_delim_stack[j].type = TOKEN_TYPE_LIST_DELIMITER_OPEN
            /\ parse_node_list_stack[j + 1].type = PARSE_NODE_TYPE_LIST
            /\ parse_node_list_stack[j + 1].index = list_delim_stack[j].index
            /\ parse_node_list_stack[j + 1].line = list_delim_stack[j].line
            /\ parse_node_list_stack[j + 1].column = list_delim_stack[j].column
       /\ Len(parse_node_list_stack) > 1 <=> Len(list_delim_stack) > 0
  /\ pc = "returned" /\ TokenizeOk => parse_result.kind # "throw"

C33_Witness ==
  /\ pc = "parse"
  /\ Len(list_delim_stack) >= 2
  /\ \E k \in 1..i : tokens[k].type = TOKEN_TYPE_LIST_DELIMITER_CLOSE

(***************************************************************************)
(* The two sub-states of a multi-line comment.                             *)
(***************************************************************************)

InSubState(m) ==
  m \in {MODE_MULTI_LINE_COMMENT_START, MODE_MULTI_LINE_COMMENT_END}

\* The character a sub-state is about to consume.
SubStateCharacter(m) == IF m = MODE_MULTI_LINE_COMMENT_START THEN "|" ELSE "#"

C34_Inv ==
  /\ pc = "scan" /\ InSubState(mode) =>
       /\ text_index < Len(text)
       /\ CharAt(text, text_index) = SubStateCharacter(mode)
  /\ pc # "scan" /\ tokenization_result.kind # "ok" => ~InSubState(mode)

C34_Step ==
  /\ pc = "scan" /\ ~InSubState(mode) /\ InSubState(mode') =>
       /\ pc' = "scan"
       /\ text_index' < Len(text)
       /\ CharAt(text, text_index') = SubStateCharacter(mode')
  /\ pc = "scan" /\ mode = MODE_MULTI_LINE_COMMENT_START =>
       /\ pc' = "scan"
       /\ text_index' = text_index + 1
       /\ mode' = MODE_MULTI_LINE_COMMENT
  /\ pc = "scan" /\ mode = MODE_MULTI_LINE_COMMENT_END =>
       /\ pc' = "scan"
       /\ text_index' = text_index + 1
       /\ mode' \in {MODE_MULTI_LINE_COMMENT, MODE_UNDETERMINED}
  /\ /\ pc = "scan"
     /\ text_index >= Len(text)
     /\ token.type = TOKEN_TYPE_MULTI_LINE_COMMENT
     => /\ mode = MODE_MULTI_LINE_COMMENT
        /\ tokenization_result'.kind = "err"
        /\ tokenization_result'.error_code =
             ERROR_CODE_UNTERMINATED_MULTI_LINE_COMMENT

\* C34: the text never ends while the scanner is in MultiLineCommentStart
\* or MultiLineCommentEnd.  A sub-state is entered only with its character
\* ("|" resp. "#") present as the next character of the text, and is left
\* by the next step, which consumes exactly that character; so at the end
\* of the input a pending multi-line comment is always in the
\* MultiLineComment state and is reported as UnterminatedMultiLineComment.
C34_NoEndInSubState == []C34_Inv /\ [][C34_Step]_vars

C34_Witness ==
  /\ pc = "tokenized"
  /\ tokenization_result.kind = "err"
  /\ tokenization_result.error_code = ERROR_CODE_UNTERMINATED_MULTI_LINE_COMMENT
  /\ tokenization_result.missing >= 2
  /\ Len(text) >= 4
  /\ CharAt(text, Len(text) - 2) = "#"
  /\ CharAt(text, Len(text) - 1) = "|"
  /\ mode = MODE_MULTI_LINE_COMMENT

(***************************************************************************)
(* "#" before a double quote.                                              *)
(***************************************************************************)

\* The emitted tokens and the pending one.
AllTokens == IF token = NullToken THEN tokens ELSE Append(tokens, token)

\* C35: raw strings are not recognised.  A scanned "#" that is followed by
\* a double quote and lies outside every string and comment is the last
\* character of a Word token (which it starts or continues), and the quote
\* starts a DoubleQuoteString token that ends, as any other, at the first
\* later double quote not preceded by a backslash; the text #"a" tokenizes
\* as the Word # followed by the DoubleQuoteString "a".
C35_NoRawStrings ==
  /\ \A p \in 0..(text_index - 1) :
       CharAt(text, p) = "#" /\ CharAt(text, p + 1) = "\"" =>
         \A k \in 1..Len(AllTokens) :
           Holds(AllTokens[k], p) =>
             \/ IsStringToken(AllTokens[k])
             \/ IsCommentToken(AllTokens[k])
             \/ /\ AllTokens[k].type = TOKEN_TYPE_WORD
                /\ AllTokens[k].index + AllTokens[k].length = p + 1
                /\ p + 1 < text_index =>
                     /\ k + 1 <= Len(AllTokens)
                     /\ AllTokens[k + 1].type = TOKEN_TYPE_DOUBLE_QUOTE_STRING
                     /\ AllTokens[k + 1].index = p + 1
                     /\ LET e == FirstTerminator(text, "\"", p + 2)
                        IN IF k + 1 <= Len(tokens)
                           THEN e # -1 /\ tokens[k + 1].length = e - p
                           ELSE e = -1 \/ e >= text_index
  /\ pc = "tokenized" /\ text = <<"#", "\"", "a", "\"">> =>
       /\ TokenizeOk
       /\ Len(tokens) = 2
       /\ tokens[1].type = TOKEN_TYPE_WORD
       /\ Lexeme(text, tokens[1]) = <<"#">>
       /\ tokens[2].type = TOKEN_TYPE_DOUBLE_QUOTE_STRING
       /\ Lexeme(text, tokens[2]) = <<"\"", "a", "\"">>

C35_Witness ==
  /\ pc = "tokenized"
  /\ TokenizeOk
  /\ Len(tokens) = 2
  /\ tokens[1].type = TOKEN_TYPE_WORD
  /\ Lexeme(text, tokens[1]) = <<"a", "#">>
  /\ tokens[2].type = TOKEN_TYPE_DOUBLE_QUOTE_STRING
  /\ Lexeme(text, tokens[2]) = <<"\"", "\\", "\"", "\"">>

(***************************************************************************)
(* The scanner's assertions.                                               *)
(***************************************************************************)

InMultiLineComment(m) ==
  m \in {MODE_MULTI_LINE_COMMENT, MODE_MULTI_LINE_COMMENT_START,
         MODE_MULTI_LINE_COMMENT_END}

\* C36: the scanner's state invariants.  Between any two steps of the scan:
\* in Undetermined mode there is no pending token and the comment nesting
\* depth is 0; in every other mode there is a pending token; the depth is
\* > 0 in MultiLineComment, MultiLineCommentStart and MultiLineCommentEnd
\* and 0 in every other mode; the character to be consumed in
\* MultiLineCommentStart is "|" and in MultiLineCommentEnd "#".  No
\* assertion of tokenize ever fails (the only exception tokenize raises is
\* the "not implemented" one for a single-quoted string left open), and on
\* a successful return the mode is Undetermined, no token is pending and
\* the depth is 0.
C36_ScannerInvariants ==
  /\ pc = "scan" =>
       /\ mode = MODE_UNDETERMINED =>
            token = NullToken /\ multi_line_comment_nesting_level = 0
       /\ mode # MODE_UNDETERMINED => token # NullToken
       /\ InMultiLineComment(mode) <=> multi_line_comment_nesting_level > 0
       /\ ~InMultiLineComment(mode) => multi_line_comment_nesting_level = 0
       /\ mode = MODE_MULTI_LINE_COMMENT_START =>
            CharAt(text, text_index) = "|"
       /\ mode = MODE_MULTI_LINE_COMMENT_END =>
            CharAt(text, text_index) = "#"
       /\ character_consumption_loop_count <= character_consumption_loop_limit
  /\ tokenization_result.kind = "throw" =>
       /\ tokenization_result.what = "Leftover token: not implemented!"
       /\ mode = MODE_SINGLE_QUOTE_STRING
  /\ TokenizeOk =>
       /\ mode = MODE_UNDETERMINED
       /\ token = NullToken
       /\ multi_line_comment_nesting_level = 0

C36_Witness ==
  /\ pc = "scan"
  /\ mode = MODE_MULTI_LINE_COMMENT_END
  /\ multi_line_comment_nesting_level >= 2
  /\ Len(tokens) >= 1

====
